---- MODULE Spec2Model ----
(***************************************************************************)
(* State-machine model of the Graph component (layout and interaction      *)
(* engine) of graph-ui-library: src/components/graph/GraphEdges.tsx holds  *)
(* both the GraphEdges component and the Graph component.                  *)
(*                                                                         *)
(* Numbers.  The code computes with IEEE doubles; the model computes with  *)
(* exact rationals <<n, d>> (d > 0, lowest terms), the usual idealisation. *)
(* Identifiers.  A node id is a sequence of one-character strings, so that *)
(* the template literal `${source}-${target}` is modelled by what it does  *)
(* (concatenation), not as an injective pairing.                           *)
(***************************************************************************)
EXTENDS Integers, Sequences, FiniteSets, TLC

----------------------------------------------------------------------------
(* Bounds of the model *)

\* longest edge list drawn for the highlight specification
MaxEdges == 2
\* viewport operations per behaviour of the viewport specification
MaxViewOps == 3
\* pending setTimeout callbacks of handleExpandNode
MaxTimers == 2
\* pointer events per behaviour of the drag sessions
MaxDragOps == 4
\* node drags and expansions per behaviour of the expansion specification
MaxExpandOps == 5
\* node component events per behaviour of the menu specification
MaxMenuOps == 5
\* deferred callbacks of handleContextMenu that are pending at once
MaxPending == 2
\* node counts laid out: up to this many, and this many around the limit
LayoutMargin == 3

----------------------------------------------------------------------------
(* Exact rational arithmetic *)

Abs(i) == IF i < 0 THEN -i ELSE i

RECURSIVE GCD(_, _)
GCD(a, b) == IF b = 0 THEN a ELSE GCD(b, a % b)

\* the fraction n/d in lowest terms with a positive denominator (d # 0)
Rat(n, d) ==
  LET g == GCD(Abs(n), Abs(d))
      s == IF d < 0 THEN -1 ELSE 1
  IN  <<(s * n) \div g, (s * d) \div g>>

RInt(i) == <<i, 1>>
RAdd(p, q) == Rat(p[1] * q[2] + q[1] * p[2], p[2] * q[2])
RSub(p, q) == Rat(p[1] * q[2] - q[1] * p[2], p[2] * q[2])
RMul(p, q) == Rat(p[1] * q[1], p[2] * q[2])
RDiv(p, q) == Rat(p[1] * q[2], p[2] * q[1])
RLe(p, q) == p[1] * q[2] <= q[1] * p[2]
RLt(p, q) == p[1] * q[2] < q[1] * p[2]
RMin(p, q) == IF RLe(p, q) THEN p ELSE q
RMax(p, q) == IF RLe(p, q) THEN q ELSE p

\* Math.min and Math.max on integers
Min(a, b) == IF a <= b THEN a ELSE b
Max(a, b) == IF a >= b THEN a ELSE b

\* Math.cos and Math.sin at a whole number q of quarter turns (q * pi/2), in
\* exact arithmetic
CosQ(q) == LET r == ((q % 4) + 4) % 4
           IN  IF r = 0 THEN 1 ELSE IF r = 2 THEN -1 ELSE 0
SinQ(q) == LET r == ((q % 4) + 4) % 4
           IN  IF r = 1 THEN 1 ELSE IF r = 3 THEN -1 ELSE 0

----------------------------------------------------------------------------
(* Identifiers, nodes, edges, documents *)

NoNode == <<>>
IdA == <<"a">>
IdB == <<"b">>
IdC == <<"c">>
IdD == <<"d">>
IdE == <<"e">>

\* `${source}-${target}`
EdgeKey(source, target) == source \o <<"-">> \o target

MkNode(id, name, deps) ==
  [id |-> id, name |-> name, outgoingDependencies |-> deps]
MkEdge(s, t) == [source |-> s, target |-> t]

NodeA == MkNode(IdA, <<"A">>, <<>>)
NodeB == MkNode(IdB, <<"B">>, <<>>)
NodeC == MkNode(IdC, <<"C">>, <<>>)
\* node a carrying a metadata hint that names node b by its display name
NodeADep == MkNode(IdA, <<"A">>, << <<"B">> >>)

\* the `data` prop.  shape: "absent" (no document), "noNodes" (no `nodes`
\* field), "nodesNotArray" (`nodes` is not a list; the model keeps what it
\* holds in `nodes`) or "valid"; hasEdges: whether there is an `edges` field
MkDoc(ok, nodes, edges) ==
  [shape |-> IF ok THEN "valid" ELSE "absent", nodes |-> nodes,
   edges |-> edges, hasEdges |-> TRUE]

\* documents that are absent, or whose node list is absent or not a list
DocInvalid == MkDoc(FALSE, <<>>, <<>>)
DocNoNodes ==
  [MkDoc(TRUE, <<>>, <<MkEdge(IdA, IdB)>>) EXCEPT !.shape = "noNodes"]
DocNodesNotArray ==
  [MkDoc(TRUE, <<MkNode(IdA, <<"A">>, <<>>), MkNode(IdB, <<"B">>, <<>>)>>,
         <<MkEdge(IdA, IdB)>>) EXCEPT !.shape = "nodesNotArray"]
\* a valid node list and no edge list
DocNoEdges ==
  [MkDoc(TRUE, <<MkNode(IdA, <<"A">>, <<>>), MkNode(IdB, <<"B">>, <<>>)>>,
         <<>>) EXCEPT !.hasEdges = FALSE]
DocEmpty == MkDoc(TRUE, <<>>, <<>>)
\* parallel edges, a self-loop, and a metadata dependency hint
DocPair ==
  MkDoc(TRUE, <<NodeADep, NodeB>>,
        <<MkEdge(IdA, IdB), MkEdge(IdA, IdB), MkEdge(IdA, IdA)>>)
\* the edge list references id b, which is not in the node list
DocDangling ==
  MkDoc(TRUE, <<NodeA>>, <<MkEdge(IdA, IdB), MkEdge(IdB, IdA)>>)

\* ids that contain the separator of the edge keys: the edges (a-b, c) and
\* (a, b-c)
IdAB == <<"a", "-", "b">>
IdBC == <<"b", "-", "c">>
DocDash ==
  MkDoc(TRUE,
        <<MkNode(IdAB, <<"AB">>, <<>>), NodeC, NodeA,
          MkNode(IdBC, <<"BC">>, <<>>)>>,
        <<MkEdge(IdAB, IdC), MkEdge(IdA, IdBC)>>)

\* no edges: node b is named by the hint of a alone
DocHint == MkDoc(TRUE, <<NodeADep, NodeB>>, <<>>)

\* node a with four outgoing edges
DocFan ==
  MkDoc(TRUE,
        <<NodeA, NodeB, NodeC, MkNode(IdD, <<"D">>, <<>>),
          MkNode(IdE, <<"E">>, <<>>)>>,
        <<MkEdge(IdA, IdB), MkEdge(IdA, IdC), MkEdge(IdA, IdD),
          MkEdge(IdA, IdE)>>)

Docs == {DocInvalid, DocNoNodes, DocNodesNotArray, DocNoEdges, DocEmpty,
         DocPair, DocDangling, DocHint}

SeqToSet(s) == {s[i] : i \in DOMAIN s}

----------------------------------------------------------------------------
(* Graph component: props and state *)

VARIABLES
  data,            \* the `data` prop (the input document)
  autoLayout,      \* the `autoLayout` prop (the layout kind asked for)
  layoutApplied,   \* history: the algorithm the last layout run executed
  nodePositions,   \* Record<string, {x, y}>, a function from ids to points
  selectedNode,    \* the id of the selected node, or NoNode
  highlightedPath, \* [nodes |-> set of ids, edges |-> set of edge keys]
  expandingNode,   \* the id shown as expanding, or NoNode
  timers,          \* number of pending setTimeout(() => setExpandingNode(null))
  transform,       \* [x, y, scale], rationals
  isPanning,
  panStart,        \* [x, y], rationals
  nodeDragging,    \* the id of the node whose isDragging is set, or NoNode
  nodeDragOffset,  \* the dragOffset of that node, [x, y]
  panelDragging,   \* isDragging of the details panel
  panelPosition,   \* panelPosition of the details panel, [x, y]
  panelDragOffset, \* dragOffset of the details panel, [x, y]
  grab,            \* history: what the last pointer-down found
  nodeUi,          \* per rendered node: showMenu, showTooltip,
                   \* showContextMenu, contextMenuPosition of its component
  pendingShow,     \* the deferred callbacks of handleContextMenu, in order
  hover,           \* the id of the node the pointer is over, or NoNode
  failed,          \* a render threw: React has unmounted the component
  containerSize,   \* containerSize: the size measured of the container
  steps,           \* viewport operations performed (bounds the behaviours)
  last             \* the last operation and its arguments

vars == <<data, autoLayout, layoutApplied, nodePositions, selectedNode,
          highlightedPath, expandingNode, timers, transform, isPanning,
          panStart, nodeDragging, nodeDragOffset, panelDragging, panelPosition,
          panelDragOffset, grab, nodeUi, pendingShow, hover, failed,
          containerSize, steps, last>>

propVars == <<data, autoLayout, layoutApplied>>
graphVars == <<propVars, nodePositions, selectedNode, highlightedPath,
               expandingNode, timers>>
viewVars == <<transform, isPanning, panStart>>
nodeDragVars == <<nodeDragging, nodeDragOffset, grab>>
panelVars == <<panelDragging, panelPosition, panelDragOffset>>
menuVars == <<nodeUi, pendingShow, hover>>

\* an operation on nodes or edges (a, b: ids), and a pointer operation (pt: the
\* pointer position, n: the wheel's deltaY, a: the element under the pointer)
Op(op, a, b) == [op |-> op, a |-> a, b |-> b, pt |-> <<0, 0>>, n |-> 0]
PointerOp(op, target, pt, n) ==
  [op |-> op, a |-> target, b |-> NoNode, pt |-> <<pt.x, pt.y>>, n |-> n]

\* default props and initial state of the Graph component
ContainerWidth == 800
ContainerHeight == 600
ViewportWidth == 5000
ViewportHeight == 5000
DefaultLayout == "circular"
CircularLimit == 50

Point(x, y) == [x |-> x, y |-> y]
\* nothing grabbed yet: whether the button is down, the pointer, the
\* translate and the grabbed element's position at the last pointer-down, and
\* the pointer at the latest pointer-down or pointer-move of that session
NoGrab == [down |-> FALSE, pt |-> Point(0, 0),
           translate |-> [x |-> RInt(0), y |-> RInt(0)],
           element |-> Point(0, 0), at |-> Point(0, 0)]
Sentinel == Point(0, 0)

\* a useMemo that returns the document as it came
processedData_Unchecked(d) == d

\* useMemo at the top of Graph:
\* !data || !data.nodes || !Array.isArray(data.nodes)
processedData(d) ==
  IF d.shape = "absent" \/ d.shape = "noNodes" \/ d.shape = "nodesNotArray"
    THEN MkDoc(TRUE, <<>>, <<>>)
    ELSE d

\* the render of Graph throws: GraphEdges calls edges.filter on the `edges`
\* of processedData, which a document without an edge list does not have
renderThrows(d) == ~processedData(d).hasEdges

\* what is on screen for the document d: after a render that throws React
\* unmounts the component, no effect runs and its state is gone, which leaves
\* what an empty graph shows
shownData(d) == IF renderThrows(d) THEN MkDoc(TRUE, <<>>, <<>>)
                ELSE processedData(d)

NodeIds(nodes) == {nodes[i].id : i \in DOMAIN nodes}

EmptyPath == [nodes |-> {}, edges |-> {}]

----------------------------------------------------------------------------
(* Layout step and initial transform *)

\* the algorithm the layout effect dispatches to
actualLayout_AtLimit(nodeCount, requested) ==
  IF nodeCount >= CircularLimit /\ requested = "circular" THEN "donut"
  ELSE requested
actualLayout(nodeCount, requested) ==
  IF nodeCount > CircularLimit /\ requested = "circular" THEN "donut"
  ELSE requested

appliedAlgorithm_NoTreeBranch(nodeCount, requested) ==
  LET k == actualLayout(nodeCount, requested)
  IN  IF k = "circular" THEN "circular"
      ELSE IF k = "spiral" THEN "spiral"
      ELSE IF k = "donut" THEN "donut"
      ELSE "force"
appliedAlgorithm(nodeCount, requested) ==
  LET k == actualLayout(nodeCount, requested)
  IN  IF k = "circular" THEN "circular"
      ELSE IF k = "tree" THEN "circular"
      ELSE IF k = "spiral" THEN "spiral"
      ELSE IF k = "donut" THEN "donut"
      ELSE "force"

\* utils/graphLayout is not part of the sources at hand. Whatever the
\* algorithm, the position of the i-th of the nodes is a point of the target
\* area around the center (viewportSize / 2), distinct per index and never the
\* sentinel
LayoutPoint(algorithm, i) ==
  Point(ViewportWidth \div 2 + 300 * i, ViewportHeight \div 2)

\* createCircularLayout, createSpiralLayout, createDonutLayout,
\* createForceLayout: one entry per node id
createLayout(algorithm, nodes) ==
  [id \in NodeIds(nodes) |->
     LayoutPoint(algorithm,
                 CHOOSE i \in DOMAIN nodes :
                   nodes[i].id = id /\ \A j \in DOMAIN nodes :
                                         nodes[j].id = id => j <= i)]

\* getInitialZoomScale: a decreasing function of the node count whose values
\* lie inside the clamp range
getInitialZoomScale(nodeCount) ==
  IF nodeCount >= 9 THEN Rat(1, 10) ELSE Rat(10 - nodeCount, 10)

initialTransform(nodeCount) ==
  LET s  == getInitialZoomScale(nodeCount)
      tx == RSub(Rat(containerSize.x, 2), RMul(Rat(ViewportWidth, 2), s))
      ty == RSub(Rat(containerSize.y, 2), RMul(Rat(ViewportHeight, 2), s))
  IN  [x |-> tx, y |-> ty, scale |-> s]

\* a layout effect that computes the map and does not install it
layoutPositions_KeepPrevious(doc, prev) == prev

\* the layout effect: positions and transform it leaves, given the ones before
layoutPositions(doc, prev) ==
  IF Len(doc.nodes) = 0 THEN prev
  ELSE createLayout(appliedAlgorithm(Len(doc.nodes), autoLayout), doc.nodes)

layoutTransform(doc, prev) ==
  IF Len(doc.nodes) = 0 THEN prev ELSE initialTransform(Len(doc.nodes))

\* the algorithm a layout run on `doc` executes; none for an empty node list
layoutRun(doc, requested) ==
  IF Len(doc.nodes) = 0 THEN "none"
  ELSE appliedAlgorithm(Len(doc.nodes), requested)

\* a reset effect that forgets to prune
prunePositions_KeepAll(prevPositions, nodes) == prevPositions

\* the updater of the reset effect: keep the entries of current node ids
prunePositions(prevPositions, nodes) ==
  [id \in (DOMAIN prevPositions) \cap NodeIds(nodes) |-> prevPositions[id]]

----------------------------------------------------------------------------
(* Rendering: which edges and nodes are drawn *)

HasPosition(pos, id) == id \in DOMAIN pos

\* the filter predicate of GraphEdges.validEdges
edgeIsValid(edge, pos) ==
  /\ HasPosition(pos, edge.source)
  /\ HasPosition(pos, edge.target)
  /\ pos[edge.source].x # 0 /\ pos[edge.source].y # 0
  /\ pos[edge.target].x # 0 /\ pos[edge.target].y # 0

\* the guard inside validEdges.map: TRUE when the edge is skipped
edgeIsSkipped(edge, pos) ==
  \/ ~HasPosition(pos, edge.source)
  \/ ~HasPosition(pos, edge.target)
  \/ (pos[edge.source].x = 0 /\ pos[edge.source].y = 0)
  \/ (pos[edge.target].x = 0 /\ pos[edge.target].y = 0)

\* const isPathHighlighted =
\*   highlightedPath.edges.has(`${edge.source}-${edge.target}`)
isPathHighlighted(edge, path) ==
  EdgeKey(edge.source, edge.target) \in path.edges

\* a GraphEdges that draws every edge of the list
validEdges_Unfiltered(edges, pos) == edges

\* the edges GraphEdges draws (and makes clickable)
validEdges(edges, pos) ==
  SelectSeq(edges, LAMBDA e : edgeIsValid(e, pos) /\ ~edgeIsSkipped(e, pos))

\* const position = nodePositions[node.id] || { x: 0, y: 0 }
positionOrSentinel(pos, id) ==
  IF HasPosition(pos, id) THEN pos[id] ELSE Sentinel

\* the nodes Graph draws: those whose position is not (0, 0)
nodeIsRendered(node, pos) == positionOrSentinel(pos, node.id) # Sentinel

renderedNodes(nodes, pos) ==
  {nodes[i] : i \in {j \in DOMAIN nodes : nodeIsRendered(nodes[j], pos)}}

----------------------------------------------------------------------------
(* Selection and highlight handlers, as functions of the edge list *)

\* a neighbourhood that follows outgoing edges only
touches_SourceOnly(edge, nodeId) == edge.source = nodeId

touches(edge, nodeId) == edge.source = nodeId \/ edge.target = nodeId

\* a neighbourhood that leaves the node itself out
findConnectedNodes_WithoutSelf(nodeId, edges) ==
  LET hit == {i \in DOMAIN edges : touches(edges[i], nodeId)}
  IN  [nodes |-> ({edges[i].source : i \in hit}
                    \cup {edges[i].target : i \in hit}) \ {nodeId},
       edges |-> {EdgeKey(edges[i].source, edges[i].target) : i \in hit}]

findConnectedNodes(nodeId, edges) ==
  LET hit == {i \in DOMAIN edges : touches(edges[i], nodeId)}
  IN  [nodes |-> {nodeId} \cup {edges[i].source : i \in hit}
                          \cup {edges[i].target : i \in hit},
       edges |-> {EdgeKey(edges[i].source, edges[i].target) : i \in hit}]

\* a trace that leaves out the node it was asked for
showDependenciesPath_SourcesOnly(nodeId, edges) ==
  LET hit == {i \in DOMAIN edges : edges[i].target = nodeId}
  IN  [nodes |-> {edges[i].source : i \in hit} \ {nodeId},
       edges |-> {EdgeKey(edges[i].source, edges[i].target) : i \in hit}]

showDependenciesPath(nodeId, edges) ==
  LET hit == {i \in DOMAIN edges : edges[i].target = nodeId}
  IN  [nodes |-> {nodeId} \cup {edges[i].source : i \in hit},
       edges |-> {EdgeKey(edges[i].source, edges[i].target) : i \in hit}]

\* dependents computed in the direction of dependencies
showDependentsPath_Incoming(nodeId, edges) ==
  showDependenciesPath(nodeId, edges)

showDependentsPath(nodeId, edges) ==
  LET hit == {i \in DOMAIN edges : edges[i].source = nodeId}
  IN  [nodes |-> {nodeId} \cup {edges[i].target : i \in hit},
       edges |-> {EdgeKey(edges[i].source, edges[i].target) : i \in hit}]

\* an edge click that adds to the active highlight set
edgeClickPath_Union(edge) ==
  [nodes |-> highlightedPath.nodes \cup {edge.source, edge.target},
   edges |-> highlightedPath.edges \cup {EdgeKey(edge.source, edge.target)}]

edgeClickPath(edge) ==
  [nodes |-> {edge.source, edge.target},
   edges |-> {EdgeKey(edge.source, edge.target)}]

\* if (e.target === e.currentTarget): the handler sits on the svg element
backgroundClickHits(target) == target = "svg"

\* the elements on which handleMouseDown starts panning
BackgroundTargets == {"svg", "graph-background"}

\* handleGoToParent: the parents of a node and the selection it leaves
parentsOf(nodeId, edges) ==
  {edges[i].source : i \in {j \in DOMAIN edges : edges[j].target = nodeId}}

goToParentSelection(nodeId, pd, prevSelected) ==
  LET parents == parentsOf(nodeId, pd.edges)
  IN  IF Cardinality(parents) = 1
        THEN LET parentId == CHOOSE q \in parents : TRUE
             IN  IF parentId \in NodeIds(pd.nodes) THEN parentId
                 ELSE prevSelected
        ELSE prevSelected

----------------------------------------------------------------------------
(* Expansion *)

ExpandRadius == 200

AddUnique(seq, x) == IF x \in SeqToSet(seq) THEN seq ELSE Append(seq, x)

\* processedData.edges.forEach: the targets of the node's outgoing edges, in
\* the insertion order of the Set newNodeIds
RECURSIVE edgeTargets(_, _, _)
edgeTargets(edges, nodeId, acc) ==
  IF edges = <<>> THEN acc
  ELSE edgeTargets(Tail(edges), nodeId,
                   IF Head(edges).source = nodeId
                     THEN AddUnique(acc, Head(edges).target)
                     ELSE acc)

\* processedData.nodes.find(n => n.id === dep || n.name === dep || ...): the
\* documents of the model carry no title, fullName, filePath or imports
depMatches(nodes, dep) ==
  {i \in DOMAIN nodes : nodes[i].id = dep \/ nodes[i].name = dep}

RECURSIVE dependencyTargets(_, _, _)
dependencyTargets(deps, nodes, acc) ==
  IF deps = <<>> THEN acc
  ELSE LET hits == depMatches(nodes, Head(deps))
       IN  dependencyTargets(Tail(deps), nodes,
             IF hits = {} THEN acc
             ELSE AddUnique(acc,
                    nodes[CHOOSE i \in hits : \A j \in hits : i <= j].id))

\* newNodeIds of handleExpandNode, as a duplicate-free sequence
newNodeIds(node, pd) ==
  dependencyTargets(node.outgoingDependencies, pd.nodes,
                    edgeTargets(pd.edges, node.id, <<>>))

\* a test that takes every id for unplaced
isUnplaced_Always(pos, id) == TRUE

isUnplaced(pos, id) ==
  ~HasPosition(pos, id) \/ (pos[id].x = 0 /\ pos[id].y = 0)

\* a reveal list that takes every discovered id, placed or not
nodesToReveal_All(node, doc, pos) == newNodeIds(node, doc)

nodesToReveal(node, pd, pos) ==
  SelectSeq(newNodeIds(node, pd), LAMBDA id : isUnplaced(pos, id))

\* the counts of revealed nodes whose angles are whole quarter turns, at
\* which cos and sin are rational
exactAngles(count) == IF count = 0 THEN TRUE ELSE 4 % count = 0

\* Math.cos(-pi/2) and Math.cos(pi/2) are 6.1e-17 and Math.sin of the double
\* nearest pi is of the order 1e-16, not 0: radius times the residue is lost
\* in the rounding of the sum when the anchor's coordinate is at least this
\* large, and the double result is then the exact one
CosResidueAbsorbed == 128
SinResidueAbsorbed == 1024

\* the expansions whose double arithmetic the exact arithmetic reproduces: at
\* most one node to place (cos 0 = 1 and sin 0 = 0 are exact), no placement
\* at all, or quarter-turn angles around an anchor that absorbs the residues
exactPlacement(node, doc, pos) ==
  LET count == Len(nodesToReveal(node, doc, pos))
      nodePos == positionOrSentinel(pos, node.id)
  IN  IF count <= 1 \/ nodePos = Sentinel THEN TRUE
      ELSE /\ exactAngles(count)
           /\ Abs(nodePos.x) >= CosResidueAbsorbed
           /\ count = 2 \/ Abs(nodePos.y) >= SinResidueAbsorbed

\* radius * (cos, sin)(startAngle + index * angleStep), in quarter turns:
\* angleStep = 2 pi / max(count, 1), startAngle = 0 for one node and -pi/2 for
\* two and for more
expandOffset_StartAtZero(count, index) ==
  LET angleStep == 4 \div Max(count, 1)
      angle == index * angleStep
  IN  Point(ExpandRadius * CosQ(angle), ExpandRadius * SinQ(angle))
expandOffset(count, index) ==
  LET angleStep == 4 \div Max(count, 1)
      startAngle == IF count = 1 THEN 0 ELSE -1
      angle == startAngle + index * angleStep
  IN  Point(ExpandRadius * CosQ(angle), ExpandRadius * SinQ(angle))

IndexOf(seq, x) == CHOOSE i \in DOMAIN seq : seq[i] = x

expandPositions(node, pd, pos) ==
  LET reveal  == nodesToReveal(node, pd, pos)
      nodePos == positionOrSentinel(pos, node.id)
  IN  IF Len(reveal) > 0 /\ (nodePos.x # 0 \/ nodePos.y # 0)
        THEN [id \in DOMAIN pos \cup SeqToSet(reveal) |->
                IF id \in SeqToSet(reveal)
                  THEN LET off == expandOffset(Len(reveal),
                                               IndexOf(reveal, id) - 1)
                       IN  Point(nodePos.x + off.x, nodePos.y + off.y)
                  ELSE pos[id]]
        ELSE pos

\* a highlight that follows the edge list alone
expandPath_EdgesOnly(node, doc) ==
  LET found == SeqToSet(edgeTargets(doc.edges, node.id, <<>>))
  IN  [nodes |-> {node.id} \cup found,
       edges |-> {EdgeKey(node.id, d) : d \in found}]

expandPath(node, pd) ==
  LET found == SeqToSet(newNodeIds(node, pd))
  IN  [nodes |-> {node.id} \cup found,
       edges |-> {EdgeKey(node.id, d) : d \in found}]

----------------------------------------------------------------------------
(* Viewport arithmetic *)

MinScale == Rat(1, 10)
MaxScale == RInt(5)
ZoomStep == Rat(2, 10)
focusScale == Rat(15, 10)

\* const delta = e.deltaY * -0.005
wheelDelta(deltaY) == Rat(-deltaY, 200)

\* Math.min(Math.max(transform.scale + delta, 0.1), 5)
wheelScale(scale, delta) == RMin(RMax(RAdd(scale, delta), MinScale), MaxScale)

\* a zoom that scales the translation about the origin, not the pointer
wheelTranslate_AboutOrigin(pointer, translate, scaleFactor) ==
  RMul(translate, scaleFactor)

\* pointer - (pointer - translate) * scaleFactor
wheelTranslate(pointer, translate, scaleFactor) ==
  RSub(pointer, RMul(RSub(pointer, translate), scaleFactor))

wheelTransform(t, pointerX, pointerY, deltaY) ==
  LET newScale    == wheelScale(t.scale, wheelDelta(deltaY))
      scaleFactor == RDiv(newScale, t.scale)
  IN  [x |-> wheelTranslate(RInt(pointerX), t.x, scaleFactor),
       y |-> wheelTranslate(RInt(pointerY), t.y, scaleFactor),
       scale |-> newScale]

\* a zoom-in button without the upper clamp
zoomInScale_Unclamped(scale) == RAdd(scale, ZoomStep)

zoomInScale(scale) == RMin(RAdd(scale, ZoomStep), MaxScale)
zoomOutScale(scale) == RMax(RSub(scale, ZoomStep), MinScale)

focusTransform_KeepScale(nodePos) ==
  [x |-> RSub(Rat(containerSize.x, 2), RMul(RInt(nodePos.x), transform.scale)),
   y |-> RSub(Rat(containerSize.y, 2), RMul(RInt(nodePos.y), transform.scale)),
   scale |-> transform.scale]
focusTransform(nodePos) ==
  [x |-> RSub(Rat(containerSize.x, 2), RMul(RInt(nodePos.x), focusScale)),
   y |-> RSub(Rat(containerSize.y, 2), RMul(RInt(nodePos.y), focusScale)),
   scale |-> focusScale]

resetTransform_FromOrigin(nodeCount) ==
  LET resetScale == getInitialZoomScale(nodeCount)
  IN  [x |-> RSub(RInt(0), RMul(Rat(ViewportWidth, 2), resetScale)),
       y |-> RSub(RInt(0), RMul(Rat(ViewportHeight, 2), resetScale)),
       scale |-> resetScale]
resetTransform(nodeCount) ==
  LET resetScale == getInitialZoomScale(nodeCount)
  IN  [x |-> RSub(Rat(containerSize.x, 2),
                  RMul(Rat(ViewportWidth, 2), resetScale)),
       y |-> RSub(Rat(containerSize.y, 2),
                  RMul(Rat(ViewportHeight, 2), resetScale)),
       scale |-> resetScale]

----------------------------------------------------------------------------
(* The details panel *)

PanelWidth == 350
PanelHeight == 400
PanelGap == 20

\* the panel renders (and holds state) only for a selected node with a position
panelShown(selected, pos) == selected # NoNode /\ HasPosition(pos, selected)

\* the effect on [position, containerSize]: beside the node where there is
\* room, else centred, then kept PanelGap inside the container
placePanel(position) ==
  LET spaceRight == containerSize.x - position.x
      spaceLeft == position.x
      spaceBelow == containerSize.y - position.y
      spaceAbove == position.y
      x == IF spaceRight >= PanelWidth + PanelGap
             THEN position.x + PanelGap
             ELSE IF spaceLeft >= PanelWidth + PanelGap
               THEN position.x - PanelWidth - PanelGap
               ELSE Max(PanelGap, (containerSize.x - PanelWidth) \div 2)
      y == IF spaceBelow >= PanelHeight + PanelGap
             THEN position.y + PanelGap
             ELSE IF spaceAbove >= PanelHeight + PanelGap
               THEN position.y - PanelHeight - PanelGap
               ELSE Max(PanelGap, (containerSize.y - PanelHeight) \div 2)
  IN  Point(Min(Max(x, PanelGap), containerSize.x - PanelWidth - PanelGap),
            Min(Max(y, PanelGap), containerSize.y - PanelHeight - PanelGap))

\* useState initial value of panelPosition, shown until the effect has run
initialPanelPosition(position) ==
  Point(Min(Max(position.x + 20, 20), containerSize.x - 370),
        Min(Max(position.y - 20, 20), containerSize.y - 300))

\* the panel across a graph operation that replaced the position objects of
\* the ids in `replaced`: without a selected, placed node it renders nothing
\* and its state is gone; when it appears its state is initial and the effect
\* places it; when its node or that node's position object changes the
\* effect places it again
PanelFollows(replaced) ==
  LET before == panelShown(selectedNode, nodePositions)
      after == panelShown(selectedNode', nodePositions')
  IN  IF ~after
        THEN /\ panelPosition' = Point(0, 0)
             /\ panelDragging' = FALSE
             /\ panelDragOffset' = Point(0, 0)
        ELSE IF ~before
          THEN /\ panelPosition' = placePanel(nodePositions'[selectedNode'])
               /\ panelDragging' = FALSE
               /\ panelDragOffset' = Point(0, 0)
          ELSE /\ panelPosition' =
                    IF \/ selectedNode' # selectedNode
                       \/ selectedNode' \in replaced
                      THEN placePanel(nodePositions'[selectedNode'])
                      ELSE panelPosition
               /\ UNCHANGED <<panelDragging, panelDragOffset>>

----------------------------------------------------------------------------
(* The node component: menus and tooltip *)

MenuWidth == 200
MenuHeight == 350
MenuMargin == 10
\* the tooltip is for graphs of more than this many nodes
InlineDetailsLimit == 3

\* the useState defaults of GraphNode
\* (contextMenuViewport is history: the window size handleContextMenu read)
DefaultUi ==
  [showMenu |-> FALSE, showTooltip |-> FALSE, showContextMenu |-> FALSE,
   contextMenuPosition |-> Point(0, 0), contextMenuViewport |-> Point(0, 0)]

\* the ids Graph renders a GraphNode for (key `node-${id}`)
renderedIds(doc, pos) == {node.id : node \in renderedNodes(doc.nodes, pos)}

mountedUi(doc, pos, ui) ==
  [id \in renderedIds(doc, pos) |->
     IF id \in DOMAIN ui THEN ui[id] ELSE DefaultUi]

\* the render of Graph that follows an operation, which throws or not: a
\* component that stays rendered keeps its state, a new one starts from the
\* defaults, and the callbacks of an unmounted one do nothing; the window is
\* not resized, so the container keeps the size measured at the mount
UiFollows ==
  /\ ~failed
  /\ containerSize' = containerSize
  /\ failed' = renderThrows(data')
  /\ nodeUi' = mountedUi(shownData(data'), nodePositions', nodeUi)
  /\ pendingShow' =
       SelectSeq(pendingShow, LAMBDA cb : cb.id \in DOMAIN nodeUi')
  /\ hover' = IF hover \in DOMAIN nodeUi' THEN hover ELSE NoNode

\* adjustedX, adjustedY of handleContextMenu for the pointer at `client` in a
\* window of innerWidth x innerHeight `viewport`
contextMenuPlace_NoFootprint(client, viewport) ==
  LET adjustedX == IF client.x + MenuWidth > viewport.x
                     THEN viewport.x - MenuMargin ELSE client.x
      adjustedY == IF client.y + MenuHeight > viewport.y
                     THEN viewport.y - MenuMargin ELSE client.y
  IN  [x |-> Max(MenuMargin, adjustedX), y |-> Max(MenuMargin, adjustedY)]
contextMenuPlace(client, viewport) ==
  LET adjustedX == IF client.x + MenuWidth > viewport.x
                     THEN viewport.x - MenuWidth - MenuMargin ELSE client.x
      adjustedY == IF client.y + MenuHeight > viewport.y
                     THEN viewport.y - MenuHeight - MenuMargin ELSE client.y
  IN  [x |-> Max(MenuMargin, adjustedX), y |-> Max(MenuMargin, adjustedY)]

\* what the component draws: <NodeMenu show={showMenu}>,
\* <NodeMenu show={showContextMenu}> and
\* <NodeTooltip show={showTooltip && totalNodesInView > 3}>
menuVisible(ui) == ui.showMenu
contextMenuVisible(ui) == ui.showContextMenu
tooltipVisible(ui, totalNodesInView) ==
  ui.showTooltip /\ totalNodesInView > InlineDetailsLimit

----------------------------------------------------------------------------
(* Inputs *)

\* positions a node drag can leave a node at (the origin included)
DragTargets == {Point(0, 0), Point(0, 120)}
\* pointer positions relative to the svg, and wheel deltaY values
Pointers == {Point(100, 50), Point(400, 300)}
WheelDeltaYs == {-1000, -20, 20, 1000}
\* elements a mouse-down can land on
MouseTargets == BackgroundTargets \cup {"node"}

----------------------------------------------------------------------------
(* Initial state: the component mounted on a document, effects run *)

pd == shownData(data)

\* the state after the mount in a container of `size` (handleResize runs
\* once in the mount effect and measures the container)
mountedIn(doc, requested, size) ==
  /\ containerSize = size
  /\ autoLayout = requested
  /\ layoutApplied = layoutRun(shownData(doc), requested)
  /\ data = doc
  /\ nodePositions =
       prunePositions(layoutPositions(shownData(doc), <<>>),
                      shownData(doc).nodes)
  /\ selectedNode = NoNode
  /\ highlightedPath = EmptyPath
  /\ expandingNode = NoNode
  /\ timers = 0
  /\ transform =
       layoutTransform(shownData(doc),
                       [x |-> RInt(0), y |-> RInt(0), scale |-> RInt(1)])
  /\ isPanning = FALSE
  /\ panStart = [x |-> RInt(0), y |-> RInt(0)]
  /\ nodeDragging = NoNode
  /\ nodeDragOffset = Point(0, 0)
  /\ panelDragging = FALSE
  /\ panelPosition = Point(0, 0)
  /\ panelDragOffset = Point(0, 0)
  /\ grab = NoGrab
  /\ nodeUi = mountedUi(shownData(doc), nodePositions, <<>>)
  /\ pendingShow = <<>>
  /\ hover = NoNode
  /\ failed = renderThrows(doc)
  /\ steps = 0
  /\ last = Op("mount", NoNode, NoNode)

\* the mount in a container of the default width and height
mountedWith(doc, requested) ==
  mountedIn(doc, requested, Point(ContainerWidth, ContainerHeight))

mounted(doc) == mountedWith(doc, DefaultLayout)

Init == \E doc \in Docs : mounted(doc)

----------------------------------------------------------------------------
(* Graph operations *)

\* a new `data` prop: the layout effect, then the reset effect
DataRefresh(doc) ==
  LET next == shownData(doc)
  IN  /\ data' = doc
      /\ nodePositions' =
           prunePositions(layoutPositions(next, nodePositions), next.nodes)
      /\ transform' = layoutTransform(next, transform)
      /\ highlightedPath' = EmptyPath
      /\ selectedNode' = NoNode
      /\ layoutApplied' = layoutRun(next, autoLayout)
      /\ last' = Op("refresh", NoNode, NoNode)
      /\ UNCHANGED <<autoLayout, expandingNode, timers, isPanning, panStart>>
      /\ UNCHANGED nodeDragVars
      /\ PanelFollows({})
      /\ UiFollows

\* a new `autoLayout` prop: the layout effect alone
LayoutChange(requested) ==
  /\ autoLayout' = requested
  /\ layoutApplied' = layoutRun(pd, requested)
  /\ nodePositions' =
       IF Len(pd.nodes) = 0 THEN nodePositions
       ELSE createLayout(appliedAlgorithm(Len(pd.nodes), requested), pd.nodes)
  /\ transform' = layoutTransform(pd, transform)
  /\ last' = Op("layout", <<requested>>, NoNode)
  /\ UNCHANGED <<data, selectedNode, highlightedPath, expandingNode, timers,
                 isPanning, panStart>>
  /\ UNCHANGED nodeDragVars
  /\ PanelFollows(DOMAIN nodePositions')
  /\ UiFollows

\* handleNodePositionChange, called by a rendered node that is dragged
NodeDrag(node, p) ==
  /\ node \in renderedNodes(pd.nodes, nodePositions)
  /\ nodePositions' =
       [id \in DOMAIN nodePositions \cup {node.id} |->
          IF id = node.id THEN p ELSE nodePositions[id]]
  /\ last' = Op("drag", node.id, NoNode)
  /\ UNCHANGED <<propVars, selectedNode, highlightedPath, expandingNode, timers,
                 viewVars>>
  /\ UNCHANGED nodeDragVars
  /\ PanelFollows({node.id})
  /\ UiFollows

\* handleNodeClick
NodeClick(node) ==
  /\ node \in renderedNodes(pd.nodes, nodePositions)
  /\ selectedNode' = node.id
  /\ highlightedPath' = findConnectedNodes(node.id, pd.edges)
  /\ last' = Op("select", node.id, NoNode)
  /\ UNCHANGED <<propVars, nodePositions, expandingNode, timers, viewVars>>
  /\ UNCHANGED nodeDragVars
  /\ PanelFollows({})
  /\ UiFollows

\* handleShowDependencies
ShowDependencies(node) ==
  /\ node \in renderedNodes(pd.nodes, nodePositions)
  /\ highlightedPath' = showDependenciesPath(node.id, pd.edges)
  /\ last' = Op("dependencies", node.id, NoNode)
  /\ UNCHANGED <<propVars, nodePositions, selectedNode, expandingNode, timers,
                 viewVars>>
  /\ UNCHANGED <<nodeDragVars, panelVars>>
  /\ UiFollows

\* handleShowDependents
ShowDependents(node) ==
  /\ node \in renderedNodes(pd.nodes, nodePositions)
  /\ highlightedPath' = showDependentsPath(node.id, pd.edges)
  /\ last' = Op("dependents", node.id, NoNode)
  /\ UNCHANGED <<propVars, nodePositions, selectedNode, expandingNode, timers,
                 viewVars>>
  /\ UNCHANGED <<nodeDragVars, panelVars>>
  /\ UiFollows

\* handleEdgeClick, on an edge that is drawn
EdgeClick(edge) ==
  /\ edge \in SeqToSet(validEdges(pd.edges, nodePositions))
  /\ highlightedPath' = edgeClickPath(edge)
  /\ last' = Op("edgeClick", edge.source, edge.target)
  /\ UNCHANGED <<propVars, nodePositions, selectedNode, expandingNode, timers,
                 viewVars>>
  /\ UNCHANGED <<nodeDragVars, panelVars>>
  /\ UiFollows

\* a click that lands on the svg element or on the grid rect inside it and
\* bubbles to the svg's onClick: handleBackgroundClick
BackgroundClick(target) ==
  /\ IF backgroundClickHits(target)
       THEN /\ selectedNode' = NoNode
            /\ highlightedPath' = EmptyPath
       ELSE UNCHANGED <<selectedNode, highlightedPath>>
  /\ last' = Op("backgroundClick", <<target>>, NoNode)
  /\ UNCHANGED <<propVars, nodePositions, expandingNode, timers, viewVars>>
  /\ UNCHANGED nodeDragVars
  /\ PanelFollows({})
  /\ UiFollows

\* handleGoToParent
GoToParent(node) ==
  /\ node \in renderedNodes(pd.nodes, nodePositions)
  /\ highlightedPath' = showDependenciesPath(node.id, pd.edges)
  /\ selectedNode' = goToParentSelection(node.id, pd, selectedNode)
  /\ last' = Op("goToParent", node.id, NoNode)
  /\ UNCHANGED <<propVars, nodePositions, expandingNode, timers, viewVars>>
  /\ UNCHANGED nodeDragVars
  /\ PanelFollows({})
  /\ UiFollows

\* handleExpandNode, applied to a node of the document: the menu of a rendered
\* node calls it, and the handler itself guards against an anchor that has no
\* valid position
ExpandNode(node) ==
  /\ timers < MaxTimers
  /\ expandingNode' = node.id
  /\ nodePositions' = expandPositions(node, pd, nodePositions)
  /\ highlightedPath' = expandPath(node, pd)
  /\ selectedNode' = node.id
  /\ timers' = timers + 1
  /\ last' = [Op("expand", node.id, NoNode) EXCEPT
                !.n = IF last.op = "expand" /\ last.a = node.id
                        THEN last.n + 1 ELSE 1]
  /\ UNCHANGED <<propVars, viewVars>>
  /\ UNCHANGED nodeDragVars
  /\ PanelFollows({})
  /\ UiFollows

\* a delayed callback that runs and leaves the flag as it is
ExpandTimeout_KeepFlag ==
  /\ timers > 0
  /\ timers' = timers - 1
  /\ last' = Op("expandTimeout", NoNode, NoNode)
  /\ UNCHANGED <<propVars, nodePositions, selectedNode, highlightedPath,
                 expandingNode, viewVars>>
  /\ UNCHANGED <<nodeDragVars, panelVars>>
  /\ UiFollows

\* the callback of setTimeout(() => setExpandingNode(null), 500)
ExpandTimeout ==
  /\ timers > 0
  /\ timers' = timers - 1
  /\ expandingNode' = NoNode
  /\ last' = Op("expandTimeout", NoNode, NoNode)
  /\ UNCHANGED <<propVars, nodePositions, selectedNode, highlightedPath,
                 viewVars>>
  /\ UNCHANGED <<nodeDragVars, panelVars>>
  /\ UiFollows

\* onClose of the details panel, which is shown for a selected node that has
\* a position
PanelClose ==
  /\ selectedNode # NoNode
  /\ HasPosition(nodePositions, selectedNode)
  /\ selectedNode' = NoNode
  /\ last' = Op("panelClose", NoNode, NoNode)
  /\ UNCHANGED <<propVars, nodePositions, highlightedPath, expandingNode,
                 timers, viewVars>>
  /\ UNCHANGED nodeDragVars
  /\ PanelFollows({})
  /\ UiFollows

\* handleFocusNode
FocusNode(node) ==
  /\ IF HasPosition(nodePositions, node.id)
       THEN /\ transform' = focusTransform(nodePositions[node.id])
            /\ selectedNode' = node.id
       ELSE UNCHANGED <<transform, selectedNode>>
  /\ last' = Op("focus", node.id, NoNode)
  /\ UNCHANGED <<propVars, nodePositions, highlightedPath, expandingNode,
                 timers, isPanning, panStart>>
  /\ UNCHANGED nodeDragVars
  /\ PanelFollows({})
  /\ UiFollows

----------------------------------------------------------------------------
(* Viewport operations *)

\* handleWheel
Wheel(pointer, deltaY) ==
  /\ transform' = wheelTransform(transform, pointer.x, pointer.y, deltaY)
  /\ last' = PointerOp("wheel", NoNode, pointer, deltaY)
  /\ UNCHANGED <<graphVars, isPanning, panStart>>
  /\ UNCHANGED <<nodeDragVars, panelVars>>
  /\ UiFollows

\* the element a pointer event lands on: the svg, the grid rect inside it,
\* the body of a node, the type icon in that body, the icon of a node's menu
\* button, the header of the details panel, the icon of the close button in
\* that header, the panel's body
Elements == {"svg", "graph-background", "node", "node-icon", "node-menu-icon",
             "panel-header", "panel-close-icon", "panel-body"}
\* the icons are svg elements
tagName(target) ==
  IF target \in {"svg", "node-icon", "node-menu-icon", "panel-close-icon"}
    THEN "svg"
  ELSE IF target = "graph-background" THEN "rect" ELSE "div"
hasGraphBackgroundClass(target) == target = "graph-background"
withinNode(target) == target \in {"node", "node-icon", "node-menu-icon"}
closestNodeMenu(target) == target = "node-menu-icon"
withinPanel(target) ==
  target \in {"panel-header", "panel-close-icon", "panel-body"}
closestPanelHeader(target) == target \in {"panel-header", "panel-close-icon"}

\* the node element: `left: position.x, top: position.y`, moved back by half
\* its size, 180 wide; its rendered height depends on its content
NodeWidth == 180
NodeHeight == 80
nodeRect(position) ==
  [left |-> position.x - NodeWidth \div 2,
   top |-> position.y - NodeHeight \div 2]
\* the panel element: `left: panelPosition.x, top: panelPosition.y`
panelRect(position) == [left |-> position.x, top |-> position.y]

\* handleMouseDown of the container, reached by every pointer-down inside it
startPanning_PointerOnly(target, client) ==
  IF tagName(target) = "svg" \/ hasGraphBackgroundClass(target)
    THEN /\ isPanning' = TRUE
         /\ panStart' = [x |-> RInt(client.x), y |-> RInt(client.y)]
    ELSE UNCHANGED <<isPanning, panStart>>
startPanning(target, client) ==
  IF tagName(target) = "svg" \/ hasGraphBackgroundClass(target)
    THEN /\ isPanning' = TRUE
         /\ panStart' = [x |-> RSub(RInt(client.x), transform.x),
                         y |-> RSub(RInt(client.y), transform.y)]
    ELSE UNCHANGED <<isPanning, panStart>>

\* handleMouseDown of a node
startNodeDrag(target, node, client) ==
  IF withinNode(target) /\ ~closestNodeMenu(target)
    THEN LET rect == nodeRect(nodePositions[node])
         IN  /\ nodeDragging' = node
             /\ nodeDragOffset' =
                  Point(client.x - rect.left, client.y - rect.top)
    ELSE UNCHANGED <<nodeDragging, nodeDragOffset>>

\* handleMouseDown of the details panel
startPanelDrag(target, client) ==
  IF withinPanel(target) /\ closestPanelHeader(target)
    THEN LET rect == panelRect(panelPosition)
         IN  /\ panelDragging' = TRUE
             /\ panelDragOffset' =
                  Point(client.x - rect.left, client.y - rect.top)
    ELSE UNCHANGED <<panelDragging, panelDragOffset>>

\* a pointer-down on `target` (of node `node` when it is within a node) at
\* `client`: the handler of the node or of the panel, then, the event
\* bubbling, the handler of the container
MouseDown(target, node, client) ==
  /\ ~grab.down
  /\ withinNode(target) =>
       /\ node # NoNode
       /\ HasPosition(nodePositions, node)
  /\ withinPanel(target) => panelShown(selectedNode, nodePositions)
  /\ startPanning(target, client)
  /\ startNodeDrag(target, node, client)
  /\ startPanelDrag(target, client)
  /\ grab' = [down |-> TRUE, pt |-> client,
              translate |-> [x |-> transform.x, y |-> transform.y],
              element |-> IF withinNode(target) THEN nodePositions[node]
                          ELSE IF withinPanel(target) THEN panelPosition
                          ELSE Point(0, 0),
              at |-> client]
  /\ last' = PointerOp("mouseDown", <<target>>, client, 0)
  /\ UNCHANGED <<graphVars, transform, panelPosition>>
  /\ UiFollows

\* where a pointer-move or pointer-up happens: on the element of the node that
\* is being dragged, elsewhere inside the container, or outside the container
Places == {"node", "container", "outside"}

\* handleMouseMove of the container
panTo_Unguarded(client) ==
  [transform EXCEPT !.x = RSub(RInt(client.x), panStart.x),
                    !.y = RSub(RInt(client.y), panStart.y)]
panTo(client) ==
  IF isPanning
    THEN [transform EXCEPT !.x = RSub(RInt(client.x), panStart.x),
                           !.y = RSub(RInt(client.y), panStart.y)]
    ELSE transform

\* handleMouseMove of a node: the position it reports
nodeDragTo(client, offset) == Point(client.x - offset.x, client.y - offset.y)

\* handleMouseMove of the details panel
panelDragTo(client, offset) ==
  Point(Max(0, Min(client.x - offset.x, containerSize.x - 350)),
        Max(0, Min(client.y - offset.y, containerSize.y - 300)))

\* a pointer-move to `client`: on the dragged node its handler reports the new
\* position; off it the node has been left, which ends its drag; inside the
\* container the container pans; outside it the container has been left,
\* which ends the pan; the window listener of a dragged panel moves the panel,
\* and the panel's effect places it again when its node has moved
MouseMove(place, client) ==
  LET moved == place = "node" /\ nodeDragging # NoNode
  IN  /\ place = "node" => nodeDragging # NoNode
      /\ nodePositions' =
           IF moved
             THEN [nodePositions EXCEPT
                     ![nodeDragging] = nodeDragTo(client, nodeDragOffset)]
             ELSE nodePositions
      /\ nodeDragging' = IF place = "node" THEN nodeDragging ELSE NoNode
      /\ transform' = IF place = "outside" THEN transform ELSE panTo(client)
      /\ isPanning' = IF place = "outside" THEN FALSE ELSE isPanning
      /\ panelPosition' =
           IF moved /\ nodeDragging = selectedNode
             THEN placePanel(nodePositions'[selectedNode])
             ELSE IF panelDragging
               THEN panelDragTo(client, panelDragOffset)
               ELSE panelPosition
      /\ grab' = IF grab.down THEN [grab EXCEPT !.at = client] ELSE grab
      /\ last' = PointerOp("mouseMove", <<place>>, client, 0)
      /\ UNCHANGED <<propVars, selectedNode, highlightedPath, expandingNode,
                     timers, panStart, nodeDragOffset, panelDragging,
                     panelDragOffset>>
      /\ UiFollows

\* a pointer-up: handleMouseUp of the node under the pointer, of the container
\* when inside it, and the window listener of a dragged panel
MouseUp(place) ==
  /\ nodeDragging # NoNode => place = "node"
  /\ place = "node" => nodeDragging # NoNode
  /\ isPanning => place # "outside"
  /\ nodeDragging' = NoNode
  /\ isPanning' = FALSE
  /\ panelDragging' = FALSE
  /\ grab' = [grab EXCEPT !.down = FALSE]
  /\ last' = PointerOp("mouseUp", <<place>>, Point(0, 0), 0)
  /\ UNCHANGED <<graphVars, transform, panStart, nodeDragOffset, panelPosition,
                 panelDragOffset>>
  /\ UiFollows

\* handleResetView
ResetView ==
  /\ transform' = resetTransform(Len(pd.nodes))
  /\ last' = Op("reset", NoNode, NoNode)
  /\ UNCHANGED <<graphVars, isPanning, panStart>>
  /\ UNCHANGED <<nodeDragVars, panelVars>>
  /\ UiFollows

\* handleZoomIn
ZoomIn ==
  /\ transform' = [transform EXCEPT !.scale = zoomInScale(transform.scale)]
  /\ last' = Op("zoomIn", NoNode, NoNode)
  /\ UNCHANGED <<graphVars, isPanning, panStart>>
  /\ UNCHANGED <<nodeDragVars, panelVars>>
  /\ UiFollows

\* handleZoomOut
ZoomOut ==
  /\ transform' = [transform EXCEPT !.scale = zoomOutScale(transform.scale)]
  /\ last' = Op("zoomOut", NoNode, NoNode)
  /\ UNCHANGED <<graphVars, isPanning, panStart>>
  /\ UNCHANGED <<nodeDragVars, panelVars>>
  /\ UiFollows

----------------------------------------------------------------------------
(* Node component operations *)

MenuFrame ==
  /\ ~failed
  /\ UNCHANGED <<graphVars, viewVars, nodeDragVars, panelVars, failed,
                 containerSize>>

\* handleMouseEnter of the node the pointer moves onto
HoverEnter(id) ==
  /\ id \in DOMAIN nodeUi
  /\ hover = NoNode
  /\ hover' = id
  /\ nodeUi' = IF Len(pd.nodes) > InlineDetailsLimit
                 THEN [nodeUi EXCEPT ![id].showTooltip = TRUE]
                 ELSE nodeUi
  /\ last' = Op("hoverEnter", id, NoNode)
  /\ UNCHANGED pendingShow
  /\ MenuFrame

\* handleMouseLeave
HoverLeave(id) ==
  /\ id \in DOMAIN nodeUi
  /\ hover = id
  /\ hover' = NoNode
  /\ nodeUi' = [nodeUi EXCEPT ![id].showTooltip = FALSE]
  /\ last' = Op("hoverLeave", id, NoNode)
  /\ UNCHANGED pendingShow
  /\ MenuFrame

\* handleMenuClick: a click on the button of the node
MenuButtonClick(id) ==
  /\ id \in DOMAIN nodeUi
  /\ hover = id
  /\ nodeUi' = [nodeUi EXCEPT ![id].showMenu = ~nodeUi[id].showMenu,
                              ![id].showTooltip = FALSE,
                              ![id].showContextMenu = FALSE]
  /\ last' = Op("menuClick", id, NoNode)
  /\ UNCHANGED <<pendingShow, hover>>
  /\ MenuFrame

\* handleContextMenu: a right-click on the node, in a window of the size
\* `viewport`; the menu is shown by a callback deferred with setTimeout(0)
ContextMenu(id, client, viewport) ==
  /\ id \in DOMAIN nodeUi
  /\ hover = id
  /\ Len(pendingShow) < MaxPending
  /\ nodeUi' = [nodeUi EXCEPT ![id].showMenu = FALSE,
                              ![id].showContextMenu = FALSE]
  /\ pendingShow' =
       Append(pendingShow,
              [id |-> id, position |-> contextMenuPlace(client, viewport),
               viewport |-> viewport])
  /\ last' = PointerOp("contextMenu", id, client, 0)
  /\ UNCHANGED hover
  /\ MenuFrame

\* the deferred callback of handleContextMenu
ContextMenuShow ==
  /\ pendingShow # <<>>
  /\ LET cb == Head(pendingShow)
     IN  /\ nodeUi' = [nodeUi EXCEPT
                         ![cb.id].contextMenuPosition = cb.position,
                         ![cb.id].contextMenuViewport = cb.viewport,
                         ![cb.id].showContextMenu = TRUE]
         /\ last' = Op("contextMenuShow", cb.id, NoNode)
  /\ pendingShow' = Tail(pendingShow)
  /\ UNCHANGED hover
  /\ MenuFrame

\* the two NodeMenu elements of a node
Menus == {"dropdown", "contextmenu"}

\* the "Close Menu" item of a visible menu: onClose.  (Every other item calls
\* a handler of Graph and then the same onClose.)
MenuItemClose(id, menu) ==
  /\ id \in DOMAIN nodeUi
  /\ hover = id
  /\ IF menu = "dropdown" THEN menuVisible(nodeUi[id])
                          ELSE contextMenuVisible(nodeUi[id])
  /\ nodeUi' = IF menu = "dropdown"
                 THEN [nodeUi EXCEPT ![id].showMenu = FALSE]
                 ELSE [nodeUi EXCEPT ![id].showContextMenu = FALSE]
  /\ last' = Op("menuClose", id, <<menu>>)
  /\ UNCHANGED <<pendingShow, hover>>
  /\ MenuFrame

\* a click that reaches the document: handleDocumentClick of every node
DocumentClick ==
  /\ nodeUi' = [id \in DOMAIN nodeUi |->
                 [nodeUi[id] EXCEPT !.showContextMenu = FALSE]]
  /\ last' = Op("documentClick", NoNode, NoNode)
  /\ UNCHANGED <<pendingShow, hover>>
  /\ MenuFrame

----------------------------------------------------------------------------
(* Specifications *)

\* a graph operation leaves the operation counter alone; a viewport operation
\* is counted, up to MaxViewOps per behaviour
Counting == steps < MaxViewOps /\ steps' = steps + 1

DataRefreshStep == \E doc \in Docs : DataRefresh(doc) /\ UNCHANGED steps
NodeDragStep ==
  \E i \in DOMAIN pd.nodes, p \in DragTargets :
    NodeDrag(pd.nodes[i], p) /\ UNCHANGED steps
NodeClickStep ==
  \E i \in DOMAIN pd.nodes : NodeClick(pd.nodes[i]) /\ UNCHANGED steps
ShowDependenciesStep ==
  \E i \in DOMAIN pd.nodes : ShowDependencies(pd.nodes[i]) /\ UNCHANGED steps
ShowDependentsStep ==
  \E i \in DOMAIN pd.nodes : ShowDependents(pd.nodes[i]) /\ UNCHANGED steps
EdgeClickStep ==
  \E i \in DOMAIN pd.edges : EdgeClick(pd.edges[i]) /\ UNCHANGED steps
BackgroundClickStep ==
  \E target \in BackgroundTargets : BackgroundClick(target) /\ UNCHANGED steps
GoToParentStep ==
  \E i \in DOMAIN pd.nodes : GoToParent(pd.nodes[i]) /\ UNCHANGED steps
ExpandNodeStep ==
  \E node \in renderedNodes(pd.nodes, nodePositions) :
    /\ exactPlacement(node, pd, nodePositions)
    /\ ExpandNode(node)
    /\ UNCHANGED steps
ExpandTimeoutStep == ExpandTimeout /\ UNCHANGED steps
PanelCloseStep == PanelClose /\ UNCHANGED steps
FocusNodeStep ==
  \E node \in renderedNodes(pd.nodes, nodePositions) :
    FocusNode(node) /\ UNCHANGED steps

\* the interaction engine on the documents of Docs
Next ==
  \/ DataRefreshStep
  \/ NodeDragStep
  \/ NodeClickStep
  \/ ShowDependenciesStep
  \/ ShowDependentsStep
  \/ EdgeClickStep
  \/ BackgroundClickStep
  \/ GoToParentStep
  \/ ExpandNodeStep
  \/ ExpandTimeoutStep
  \/ PanelCloseStep
  \/ FocusNodeStep

Spec == Init /\ [][Next]_vars

WheelStep == \E p \in Pointers, d \in WheelDeltaYs : Counting /\ Wheel(p, d)
MouseDownStep ==
  \E t \in MouseTargets, p \in Pointers :
    Counting /\ MouseDown(t, IF withinNode(t) THEN IdA ELSE NoNode, p)
MouseMoveStep ==
  \E place \in Places, p \in Pointers : Counting /\ MouseMove(place, p)
MouseUpStep == \E place \in Places : Counting /\ MouseUp(place)
ResetViewStep == Counting /\ ResetView
ZoomInStep == Counting /\ ZoomIn
ZoomOutStep == Counting /\ ZoomOut
\* the nodes focus is asked for: the rendered ones, and one that has no
\* position
FocusNodes == renderedNodes(pd.nodes, nodePositions) \cup {NodeC}
FocusViewStep == \E node \in FocusNodes : Counting /\ FocusNode(node)

\* the viewport, on a mounted document, for MaxViewOps operations
NextView ==
  \/ WheelStep
  \/ MouseDownStep
  \/ MouseMoveStep
  \/ MouseUpStep
  \/ ResetViewStep
  \/ ZoomInStep
  \/ ZoomOutStep
  \/ FocusViewStep

SpecView == Init /\ [][NextView]_vars

\* the pointer positions of a drag: on the container's background, on the
\* details panel, outside the container, and on the nodes
DragPointers == {Point(100, 50), Point(500, 200), Point(520, 230),
                 Point(900, 300), Point(2800, 2500), Point(2810, 2520),
                 Point(2730, 2480)}
insideContainer(p) ==
  p.x >= 0 /\ p.x <= containerSize.x /\ p.y >= 0 /\ p.y <= containerSize.y
hitsNode(node, p) ==
  /\ HasPosition(nodePositions, node)
  /\ LET rect == nodeRect(nodePositions[node])
     IN  /\ p.x >= rect.left /\ p.x <= rect.left + NodeWidth
         /\ p.y >= rect.top /\ p.y <= rect.top + NodeHeight
hitsPanel(p) ==
  /\ panelShown(selectedNode, nodePositions)
  /\ LET rect == panelRect(panelPosition)
     IN  /\ p.x >= rect.left /\ p.x <= rect.left + PanelWidth
         /\ p.y >= rect.top /\ p.y <= rect.top + 300
\* the element under the pointer is where the pointer is
hits(target, node, p) ==
  IF withinNode(target) THEN hitsNode(node, p)
  ELSE IF withinPanel(target) THEN node = NoNode /\ hitsPanel(p)
  ELSE node = NoNode /\ insideContainer(p) /\ ~hitsPanel(p)
isAt(place, p) ==
  IF place = "node" THEN nodeDragging # NoNode /\ hitsNode(nodeDragging, p)
  ELSE /\ nodeDragging # NoNode => ~hitsNode(nodeDragging, p)
       /\ (place = "container") = insideContainer(p)

DragCounting == steps < MaxDragOps /\ steps' = steps + 1

PointerDownStep ==
  \E t \in Elements, n \in NodeIds(pd.nodes) \cup {NoNode},
     p \in DragPointers :
    hits(t, n, p) /\ DragCounting /\ MouseDown(t, n, p)
PointerMoveStep ==
  \E place \in Places, p \in DragPointers :
    isAt(place, p) /\ DragCounting /\ MouseMove(place, p)
PointerUpStep == \E place \in Places : DragCounting /\ MouseUp(place)

\* pointer sessions on a mounted document, whose details panel a selection
\* shows, for MaxDragOps pointer events
InitDrag == mounted(DocPair)

NextDrag ==
  \/ NodeClickStep
  \/ PointerDownStep
  \/ PointerMoveStep
  \/ PointerUpStep

SpecDrag == InitDrag /\ [][NextDrag]_vars

\* container sizes: the default one, a low one and a narrow one
PanelContainers == {Point(800, 600), Point(800, 400), Point(360, 600)}

\* the details panel in containers of several sizes: selections, node drags
\* and panel drags, for MaxDragOps pointer events
InitPanel ==
  \E size \in PanelContainers : mountedIn(DocPair, DefaultLayout, size)

NextPanel ==
  \/ NodeClickStep
  \/ PointerDownStep
  \/ PointerMoveStep
  \/ PointerUpStep

SpecPanel == InitPanel /\ [][NextPanel]_vars

\* documents of n nodes without edges, ids "1", "2", ...
Digits == <<"0", "1", "2", "3", "4", "5", "6", "7", "8", "9">>
NumberedId(i) ==
  IF i < 10 THEN <<Digits[i + 1]>>
  ELSE <<Digits[(i \div 10) + 1], Digits[(i % 10) + 1]>>
NumberedDoc(n) ==
  MkDoc(TRUE, [i \in 1..n |-> MkNode(NumberedId(i), NumberedId(i), <<>>)],
        <<>>)
\* the layout kinds of the `autoLayout` prop, and one outside them
LayoutKinds == {"circular", "force", "tree", "spiral", "donut", "grid"}
LayoutSizes ==
  (0..LayoutMargin) \cup
  ((CircularLimit - LayoutMargin)..(CircularLimit + LayoutMargin))

LayoutRefreshStep ==
  \E n \in LayoutSizes : DataRefresh(NumberedDoc(n)) /\ UNCHANGED steps
LayoutChangeStep ==
  \E kind \in LayoutKinds : LayoutChange(kind) /\ UNCHANGED steps

\* the layout step, for every kind asked for, on graphs below, at and above
\* the limit of the circular layout
InitLayout ==
  \E n \in LayoutSizes, kind \in LayoutKinds :
    mountedWith(NumberedDoc(n), kind)

NextLayout ==
  \/ LayoutRefreshStep
  \/ LayoutChangeStep

SpecLayout == InitLayout /\ [][NextLayout]_vars

ExpandCounting == steps < MaxExpandOps /\ steps' = steps + 1

\* positions a drag leaves a node of the fan at: the origin, the point from
\* which a single revealed neighbour lands on the origin, and the point from
\* which it lands on that point
FanDragTargets ==
  {Point(0, 0), Point(0 - ExpandRadius, 0), Point(0 - 2 * ExpandRadius, 0)}

FanDragStep ==
  \E i \in DOMAIN pd.nodes, p \in FanDragTargets :
    ExpandCounting /\ NodeDrag(pd.nodes[i], p)
FanExpandStep ==
  \E i \in DOMAIN pd.nodes :
    /\ exactPlacement(pd.nodes[i], pd, nodePositions)
    /\ ExpandCounting
    /\ ExpandNode(pd.nodes[i])

\* expansion on a node with four neighbours, any of which a drag to the
\* origin has unplaced, for MaxExpandOps drags and expansions
InitExpand == mounted(DocFan)

NextExpand ==
  \/ FanDragStep
  \/ FanExpandStep
  \/ ExpandTimeoutStep

SpecExpand == InitExpand /\ [][NextExpand]_vars

\* the browser runs every callback given to setTimeout: a pending callback
\* of an expansion is not postponed forever
SpecExpandFair == SpecExpand /\ WF_vars(ExpandTimeoutStep)

MenuCounting == steps < MaxMenuOps /\ steps' = steps + 1

\* the nodes whose components receive the events, pointer positions of a
\* right-click and window sizes (innerWidth, innerHeight)
MenuIds == {IdA, IdB}
MenuClients == {Point(0, 0), Point(100, 100), Point(1000, 700)}
WindowSizes == {Point(1024, 768), Point(220, 370), Point(205, 355)}

HoverEnterStep == \E id \in MenuIds : MenuCounting /\ HoverEnter(id)
HoverLeaveStep == \E id \in MenuIds : MenuCounting /\ HoverLeave(id)
MenuButtonClickStep ==
  \E id \in MenuIds : MenuCounting /\ MenuButtonClick(id)
\* (the pointer is inside the window)
ContextMenuStep ==
  \E id \in MenuIds, client \in MenuClients, viewport \in WindowSizes :
    /\ client.x < viewport.x /\ client.y < viewport.y
    /\ MenuCounting
    /\ ContextMenu(id, client, viewport)
ContextMenuShowStep == ContextMenuShow /\ UNCHANGED steps
MenuItemCloseStep ==
  \E id \in MenuIds, menu \in Menus : MenuCounting /\ MenuItemClose(id, menu)
DocumentClickStep == MenuCounting /\ DocumentClick
\* a drag to the origin, which unmounts the node's component
MenuDragStep ==
  \E node \in renderedNodes(pd.nodes, nodePositions) :
    MenuCounting /\ NodeDrag(node, Point(0, 0))

\* the components of two nodes, in a graph that shows tooltips (five nodes)
\* and in one that shows inline details instead (two nodes), for MaxMenuOps
\* events
InitMenu == \E doc \in {DocFan, DocPair} : mounted(doc)

NextMenu ==
  \/ HoverEnterStep
  \/ HoverLeaveStep
  \/ MenuButtonClickStep
  \/ ContextMenuStep
  \/ ContextMenuShowStep
  \/ MenuItemCloseStep
  \/ DocumentClickStep
  \/ MenuDragStep

SpecMenu == InitMenu /\ [][NextMenu]_vars

\* the highlight handlers as functions of the edge list: three nodes and
\* every edge list over their ids of at most MaxEdges edges
HighlightIds == {IdA, IdB, IdC}
HighlightEdges == {MkEdge(s, t) : s \in HighlightIds, t \in HighlightIds}
EdgeLists == UNION {[1..n -> HighlightEdges] : n \in 0..MaxEdges}
HighlightDocs == {MkDoc(TRUE, <<NodeA, NodeB, NodeC>>, es) : es \in EdgeLists}

InitHighlight == \E doc \in HighlightDocs \cup {DocDash} : mounted(doc)

NextHighlight ==
  \/ NodeClickStep
  \/ ShowDependenciesStep
  \/ ShowDependentsStep
  \/ EdgeClickStep
  \/ BackgroundClickStep

SpecHighlight == InitHighlight /\ [][NextHighlight]_vars

----------------------------------------------------------------------------
(* Claims *)

\* C1: in every state reachable by viewport operations (wheel zoom, button
\* zoom-in and zoom-out, pan, focus, reset) the scale lies in [0.1, 5.0].
C1_ScaleInRange ==
  /\ RLe(Rat(1, 10), transform.scale)
  /\ RLe(transform.scale, RInt(5))

\* the zoom-in button pressed at scale 5.0 (reached by a wheel zoom): the
\* clamp acts and the scale stays 5.0
C1_Witness ==
  /\ last.op = "zoomIn"
  /\ steps = 2
  /\ transform.scale = RInt(5)

\* the graph-space point under screen point p: (p - translate) / scale
GraphPoint(p, t) ==
  Point(RDiv(RSub(RInt(p.x), t.x), t.scale),
        RDiv(RSub(RInt(p.y), t.y), t.scale))

\* clamp(s + delta, 0.1, 5.0)
ClampedSum(s, delta) ==
  IF RLt(RAdd(s, delta), Rat(1, 10)) THEN Rat(1, 10)
  ELSE IF RLt(RInt(5), RAdd(s, delta)) THEN RInt(5)
  ELSE RAdd(s, delta)

\* C2: zoom-at-point at pointer p by delta sets the scale to
\* clamp(s + delta, 0.1, 5.0) and keeps the graph-space point under p fixed;
\* when the clamp leaves the scale unchanged the transform is unchanged.
C2_ZoomFixedPoint ==
  [][\A p \in Pointers, d \in WheelDeltaYs :
       Wheel(p, d) =>
         /\ transform'.scale = ClampedSum(transform.scale, Rat(-d, 200))
         /\ GraphPoint(p, transform') = GraphPoint(p, transform)
         /\ (transform'.scale = transform.scale => transform' = transform)]_vars

\* one wheel step of +0.1 at pointer (400, 300) from the transform
\* (0, 0, 1): the scale is 1.1, the translation has moved, and the point
\* under the pointer is still the graph point (400, 300)
C2_Witness ==
  /\ last = PointerOp("wheel", NoNode, Point(400, 300), -20)
  /\ steps = 1
  /\ transform.scale = Rat(11, 10)
  /\ transform.x = RInt(-40)
  /\ GraphPoint(Point(400, 300), transform) = Point(RInt(400), RInt(300))

\* a position that marks a placed node: present and not (0, 0)
PlacedAt(pos, id) == id \in DOMAIN pos /\ pos[id] # Point(0, 0)

\* C3: every edge that is drawn has both endpoints in the position map at
\* positions other than the sentinel (0, 0).
C3_RenderedEdgesValid ==
  \A e \in SeqToSet(validEdges(pd.edges, nodePositions)) :
    PlacedAt(nodePositions, e.source) /\ PlacedAt(nodePositions, e.target)

\* some edge is drawn while another edge of the list is left out because an
\* endpoint is unplaced
C3_Witness ==
  /\ validEdges(pd.edges, nodePositions) # <<>>
  /\ \E i \in DOMAIN pd.edges :
       ~(PlacedAt(nodePositions, pd.edges[i].source)
         /\ PlacedAt(nodePositions, pd.edges[i].target))

\* C4: the position map has no entry for an id absent from the node list.
C4_PositionsOnlyForNodes == DOMAIN nodePositions \subseteq NodeIds(pd.nodes)

\* C5: every highlighted node id is the id of a node of the node list.
C5_HighlightNodesExist == highlightedPath.nodes \subseteq NodeIds(pd.nodes)

\* C6: a data refresh leaves the highlight set empty, the selection none and
\* no position map entry for a node id it removed, whatever the state before.
C6_RefreshResets ==
  [][\A doc \in Docs :
       DataRefresh(doc) =>
         /\ highlightedPath' = [nodes |-> {}, edges |-> {}]
         /\ selectedNode' = NoNode
         /\ \A id \in NodeIds(pd.nodes) \ NodeIds(processedData(doc).nodes) :
              id \notin DOMAIN nodePositions']_vars

\* a refresh to the empty node list, after an expansion of node a (its timer
\* still pending) had selected and highlighted it: everything is cleared
C6_Witness ==
  /\ last.op = "refresh"
  /\ data = DocEmpty
  /\ expandingNode = IdA
  /\ DOMAIN nodePositions = {}
  /\ selectedNode = NoNode
  /\ highlightedPath.nodes = {}

EdgeSet == SeqToSet(pd.edges)

\* C7: selecting node N sets the selection to N, the highlight nodes to N
\* and every other endpoint of an edge with source or target N, and the
\* highlight edges to the keys of exactly those edges.
C7_SelectHighlightsNeighbourhood ==
  last.op = "select" =>
    LET N == last.a
        E == {e \in EdgeSet : e.source = N \/ e.target = N}
    IN  /\ selectedNode = N
        /\ highlightedPath.nodes =
             {N} \cup {e.target : e \in {f \in E : f.source = N}}
                 \cup {e.source : e \in {f \in E : f.target = N}}
        /\ highlightedPath.edges = {e.source \o <<"-">> \o e.target : e \in E}

\* node a selected on the edge list <<a->a, b->a>>: a self-loop and an
\* incoming edge
C7_Witness ==
  /\ last = Op("select", IdA, NoNode)
  /\ pd.edges = <<MkEdge(IdA, IdA), MkEdge(IdB, IdA)>>
  /\ highlightedPath.nodes = {IdA, IdB}
  /\ Cardinality(highlightedPath.edges) = 2

\* C8: showDependencies(N) highlights N, the sources of the edges with target
\* N and those edges; showDependents(N) highlights N, the targets of the
\* edges with source N and those edges; each replaces the highlight set.
C8_DependencyTraces ==
  /\ last.op = "dependencies" =>
       LET E == {e \in EdgeSet : e.target = last.a}
       IN  /\ highlightedPath.nodes = {last.a} \cup {e.source : e \in E}
           /\ highlightedPath.edges =
                {e.source \o <<"-">> \o e.target : e \in E}
  /\ last.op = "dependents" =>
       LET E == {e \in EdgeSet : e.source = last.a}
       IN  /\ highlightedPath.nodes = {last.a} \cup {e.target : e \in E}
           /\ highlightedPath.edges =
                {e.source \o <<"-">> \o e.target : e \in E}

\* showDependents(a) on the edge list <<a->c, b->a>>: nodes {a, c}, edge a-c
C8_Witness ==
  /\ last = Op("dependents", IdA, NoNode)
  /\ pd.edges = <<MkEdge(IdA, IdC), MkEdge(IdB, IdA)>>
  /\ highlightedPath = [nodes |-> {IdA, IdC}, edges |-> {<<"a", "-", "c">>}]

\* C9: clicking edge (X, Y) sets the highlight set to exactly nodes {X, Y}
\* and edges {X-Y}, whatever was highlighted before.
C9_EdgeClickResets ==
  last.op = "edgeClick" =>
    highlightedPath = [nodes |-> {last.a, last.b},
                       edges |-> {last.a \o <<"-">> \o last.b}]

\* edge (a, b) clicked while node c is selected: the neighbourhood of c that
\* the selection had highlighted is gone
C9_Witness ==
  /\ last = Op("edgeClick", IdA, IdB)
  /\ selectedNode = IdC
  /\ pd.edges = <<MkEdge(IdA, IdB), MkEdge(IdC, IdA)>>
  /\ highlightedPath.nodes = {IdA, IdB}

\* C10: a click on the background surface (the bare svg or the grid
\* background) sets the selection to none and the highlight set to empty.
C10_BackgroundClickClears ==
  last.op = "backgroundClick" =>
    selectedNode = NoNode /\ highlightedPath = [nodes |-> {}, edges |-> {}]

----------------------------------------------------------------------------
(* Pointer sessions *)

Idle == ~isPanning /\ nodeDragging = NoNode /\ ~panelDragging

\* C11: at most one of background panning, node drag and panel drag is
\* active, and a pointer-down on a node body or on the panel header does not
\* activate panning
C11_ExclusiveInteraction ==
  /\ ~(isPanning /\ nodeDragging # NoNode)
  /\ ~(isPanning /\ panelDragging)
  /\ ~(nodeDragging # NoNode /\ panelDragging)
  /\ (last.op = "mouseDown" /\ last.a[1] = "node") => ~isPanning
  /\ (last.op = "mouseDown" /\ closestPanelHeader(last.a[1])) => ~isPanning

\* the offset from the pointer to an element, and a point moved by an offset
Minus(p, q) == Point(p.x - q.x, p.y - q.y)
Plus(p, q) == Point(p.x + q.x, p.y + q.y)
LastPointer == Point(last.pt[1], last.pt[2])

\* C12: a pointer-up, and a pointer-leave of the tracked surface, end the
\* session; pointer-moves in the idle state change neither the transform nor
\* the position map nor the panel position; only a pointer-down leaves the
\* idle state; and every position a session sets is the pointer minus the
\* offset between the pointer and the element at that session's pointer-down
C12_ReleaseEndsSession ==
  [][/\ last'.op = "mouseUp" => Idle'
     /\ (last'.op = "mouseMove" /\ last'.a[1] = "outside") =>
          ~isPanning' /\ nodeDragging' = NoNode
     /\ (last'.op = "mouseMove" /\ last'.a[1] = "container") =>
          nodeDragging' = NoNode
     /\ (last'.op = "mouseMove" /\ Idle) =>
          /\ transform' = transform
          /\ nodePositions' = nodePositions
          /\ panelPosition' = panelPosition
          /\ Idle'
     /\ (Idle /\ ~Idle') => last'.op = "mouseDown"
     /\ (last'.op = "mouseMove" /\ isPanning') =>
          LET p == Point(last'.pt[1], last'.pt[2])
          IN  /\ transform'.x =
                   RAdd(grab.translate.x, RInt(p.x - grab.pt.x))
              /\ transform'.y =
                   RAdd(grab.translate.y, RInt(p.y - grab.pt.y))
     /\ (last'.op = "mouseMove" /\ nodeDragging' # NoNode) =>
          LET p == Point(last'.pt[1], last'.pt[2])
              rect == nodeRect(grab.element)
          IN  nodePositions'[nodeDragging'] =
                Point(p.x - (grab.pt.x - rect.left),
                      p.y - (grab.pt.y - rect.top))
    ]_vars

\* a panning session was released and the next pointer-move changed nothing
C12_Witness ==
  /\ last.op = "mouseMove"
  /\ steps = 4
  /\ Idle
  /\ ~grab.down
  /\ transform.x # initialTransform(Len(pd.nodes)).x

\* C13: throughout a drag of a node or of the panel the vector from the
\* element's position to the pointer is the one at pointer-down (for the
\* panel, as long as the bounds clamp does not act)
C13_GrabPointKept ==
  /\ (last.op = "mouseMove" /\ nodeDragging # NoNode) =>
       Minus(LastPointer, nodePositions[nodeDragging]) =
         Minus(grab.pt, grab.element)
  /\ (last.op = "mouseMove" /\ panelDragging) =>
       LET free == Plus(grab.element, Minus(LastPointer, grab.pt))
       IN  (/\ free.x >= 0 /\ free.x <= ContainerWidth - 350
            /\ free.y >= 0 /\ free.y <= ContainerHeight - 300) =>
             Minus(LastPointer, panelPosition) = Minus(grab.pt, grab.element)

\* C14: at every pointer-move of a pan session that started at pointer
\* position p0 with translate t0, translate = t0 + (p - p0), and the move
\* leaves the scale as it was
C14_PanFollowsPointer ==
  [][(last'.op = "mouseMove" /\ isPanning') =>
       LET p == Point(last'.pt[1], last'.pt[2])
       IN  /\ transform'.x = RAdd(grab'.translate.x, RInt(p.x - grab'.pt.x))
           /\ transform'.y = RAdd(grab'.translate.y, RInt(p.y - grab'.pt.y))
           /\ transform'.scale = transform.scale
    ]_vars

\* a pan session followed the pointer, with a zoom among the three operations
C14_Witness ==
  /\ last.op = "mouseMove"
  /\ isPanning
  /\ steps = 3
  /\ last.pt # <<grab.pt.x, grab.pt.y>>
  /\ transform.scale # initialTransform(Len(pd.nodes)).scale

----------------------------------------------------------------------------
(* Focus, reset and the choice of the layout *)

\* C15: focus on a node at q sets the scale to 1.5 and the translate to
\* containerSize/2 - q * 1.5, which maps q to the centre of the container,
\* whatever the transform was; focus on a node without a position changes
\* nothing
C15_FocusCentresNode ==
  [][last'.op = "focus" =>
       IF HasPosition(nodePositions, last'.a)
         THEN LET q == nodePositions[last'.a]
              IN  /\ transform'.scale = Rat(3, 2)
                  /\ transform'.x =
                       RSub(Rat(ContainerWidth, 2), RMul(RInt(q.x), Rat(3, 2)))
                  /\ transform'.y =
                       RSub(Rat(ContainerHeight, 2), RMul(RInt(q.y), Rat(3, 2)))
                  /\ RAdd(RMul(RInt(q.x), transform'.scale), transform'.x) =
                       Rat(ContainerWidth, 2)
                  /\ RAdd(RMul(RInt(q.y), transform'.scale), transform'.y) =
                       Rat(ContainerHeight, 2)
         ELSE UNCHANGED <<transform, graphVars, isPanning, panStart>>
    ]_vars

\* focus on node a after two other viewport operations
C15_Witness ==
  /\ last = Op("focus", IdA, NoNode)
  /\ steps = 3
  /\ transform.scale = Rat(3, 2)
  /\ selectedNode = IdA

\* the centre of the virtual viewport maps to the centre of the container, at
\* the initial scale of n nodes
CentredAtInitialScale(t, n) ==
  /\ t.scale = getInitialZoomScale(n)
  /\ RAdd(RMul(Rat(ViewportWidth, 2), t.scale), t.x) = Rat(ContainerWidth, 2)
  /\ RAdd(RMul(Rat(ViewportHeight, 2), t.scale), t.y) = Rat(ContainerHeight, 2)

\* C16: after any sequence of viewport operations reset yields the initial
\* scale of the node count and the translate that maps the centre of the
\* virtual viewport to the centre of the container; this is the transform
\* the initial layout installs (for a graph that has nodes, the only one the
\* layout installs a transform for), and reset after reset changes nothing
C16_ResetRestoresInitialView ==
  [][/\ (last.op = "mount" /\ Len(pd.nodes) >= 1) =>
          CentredAtInitialScale(transform, Len(pd.nodes))
     /\ last'.op = "reset" =>
          /\ CentredAtInitialScale(transform', Len(pd.nodes))
          /\ (last.op = "mount" /\ Len(pd.nodes) >= 1) =>
               transform' = transform
          /\ last.op = "reset" => transform' = transform
    ]_vars

\* reset brought back the initial view of the two-node graph after a focus
C16_Witness ==
  /\ last.op = "reset"
  /\ steps = 3
  /\ selectedNode = IdA
  /\ transform = initialTransform(2)

\* C17: asked for circular, the layout step runs donut on more than 50 nodes
\* and circular on 1 to 50 nodes; asked for spiral, donut or force, it runs
\* what it was asked for
C17_CircularSwitchesToDonut ==
  Len(pd.nodes) >= 1 =>
    /\ autoLayout = "circular" =>
         layoutApplied = IF Len(pd.nodes) > 50 THEN "donut" ELSE "circular"
    /\ autoLayout \in {"spiral", "donut", "force"} =>
         layoutApplied = autoLayout

\* a graph of 51 nodes arrived while circular was asked for
C17_Witness ==
  /\ last.op = "refresh"
  /\ autoLayout = "circular"
  /\ Len(pd.nodes) = 51
  /\ layoutApplied = "donut"

\* C18: asked for tree, the layout step completes with the circular
\* algorithm; asked for a kind it does not know, it completes with force
C18_FallbackLayouts ==
  Len(pd.nodes) >= 1 =>
    /\ layoutApplied \in {"circular", "force", "spiral", "donut"}
    /\ DOMAIN nodePositions = NodeIds(pd.nodes)
    /\ autoLayout = "tree" => layoutApplied = "circular"
    /\ autoLayout \notin {"circular", "force", "tree", "spiral", "donut"} =>
         layoutApplied = "force"

\* the prop changed to tree on a graph of two nodes
C18_Witness ==
  /\ last = Op("layout", <<"tree">>, NoNode)
  /\ Len(pd.nodes) = 2
  /\ layoutApplied = "circular"
  /\ DOMAIN nodePositions = {<<"1">>, <<"2">>}

\* C19: on more than 50 nodes the layout step never runs the circular
\* algorithm, whatever kind was asked for
C19_CircularOnlyUpToLimit ==
  Len(pd.nodes) > 50 => layoutApplied # "circular"

----------------------------------------------------------------------------
(* Expansion *)

C21_ExpansionAdditive ==
  [][last'.op = "expand" =>
       /\ \A id \in DOMAIN nodePositions :
            nodePositions[id] # Sentinel =>
              /\ id \in DOMAIN nodePositions'
              /\ nodePositions'[id] = nodePositions[id]
       /\ positionOrSentinel(nodePositions, last'.a) = Sentinel =>
            nodePositions' = nodePositions
    ]_vars

\* b and c were unplaced and a expanded: b and c are placed anew, d and e keep
\* the positions the layout gave them
C21_Witness ==
  /\ last.op = "expand" /\ last.a = IdA
  /\ LET a == nodePositions[IdA]
     IN  /\ nodePositions[IdB] = Point(a.x, a.y - 200)
         /\ nodePositions[IdC] = Point(a.x, a.y + 200)
  /\ nodePositions[IdD] = createLayout(layoutApplied, pd.nodes)[IdD]
  /\ nodePositions[IdE] = createLayout(layoutApplied, pd.nodes)[IdE]

\* an anchor with no valid position was expanded while one of its neighbours
\* was unplaced
C21_WitnessUnplacedAnchor ==
  /\ last.op = "expand" /\ last.a = IdA
  /\ nodePositions[IdA] = Sentinel
  /\ nodePositions[IdB] = Sentinel

\* the ids expansion discovers from `anchor`: the targets of its outgoing
\* edges and the nodes its dependency hints name
Discovered(anchor) ==
  {pd.edges[i].target : i \in {j \in DOMAIN pd.edges :
                                 pd.edges[j].source = anchor}}
  \cup {pd.nodes[i].id : i \in {j \in DOMAIN pd.nodes :
           \E k \in DOMAIN pd.nodes :
             /\ pd.nodes[k].id = anchor
             /\ \E h \in DOMAIN pd.nodes[k].outgoingDependencies :
                  LET dep == pd.nodes[k].outgoingDependencies[h]
                      first == CHOOSE m \in DOMAIN pd.nodes :
                                 /\ dep \in {pd.nodes[m].id, pd.nodes[m].name}
                                 /\ \A l \in 1..(m - 1) :
                                      dep \notin {pd.nodes[l].id,
                                                  pd.nodes[l].name}
                  IN  /\ \E m \in DOMAIN pd.nodes :
                           dep \in {pd.nodes[m].id, pd.nodes[m].name}
                      /\ first = j}}

\* C22: an expansion of an anchor whose discovered neighbours all hold valid
\* positions changes no entry of the position map and sets the highlight to
\* the anchor and its discovered neighbours; an expansion that directly
\* follows an expansion of the same anchor leaves the position map, the
\* highlight and the selection as the first one left them
C22_ExpansionIdempotent ==
  [][last'.op = "expand" =>
       /\ (\A d \in Discovered(last'.a) :
             positionOrSentinel(nodePositions, d) # Sentinel) =>
            /\ nodePositions' = nodePositions
            /\ highlightedPath'.nodes = {last'.a} \cup Discovered(last'.a)
       /\ (last.op = "expand" /\ last.a = last'.a) =>
            /\ nodePositions' = nodePositions
            /\ highlightedPath' = highlightedPath
            /\ selectedNode' = selectedNode
    ]_vars

\* a was expanded twice in succession, and the first expansion placed b and c
C22_Witness ==
  /\ last.op = "expand" /\ last.a = IdA /\ last.n = 2
  /\ LET a == nodePositions[IdA]
     IN  /\ nodePositions[IdB] = Point(a.x, a.y - 200)
         /\ nodePositions[IdC] = Point(a.x, a.y + 200)

\* C23: after an expansion of anchor A, whether or not anything was placed,
\* the selection is A, the highlighted nodes are A and every discovered id
\* (targets of A's outgoing edges, nodes named by A's dependency hints), and
\* the highlighted edges are the keys A-d of the discovered ids d
C23_ExpansionHighlight ==
  last.op = "expand" =>
    /\ selectedNode = last.a
    /\ highlightedPath.nodes = {last.a} \cup Discovered(last.a)
    /\ highlightedPath.edges =
         {last.a \o <<"-">> \o d : d \in Discovered(last.a)}

\* a was expanded on the document where only its hint names b: b is
\* highlighted with the key a-b, and nothing was placed
C23_Witness ==
  /\ data = DocHint
  /\ last.op = "expand" /\ last.a = IdA
  /\ highlightedPath = [nodes |-> {IdA, IdB}, edges |-> {<<"a", "-", "b">>}]
  /\ nodePositions = createLayout(layoutApplied, pd.nodes)

----------------------------------------------------------------------------
(* Menus and tooltip of a node *)

\* C24: for every node and every sequence of hover-enter, hover-leave,
\* menu-button clicks, right-clicks and menu closes, the node's tooltip and
\* the node's menu (dropdown or context menu) are never both visible, so that
\* a menu that opens finds the tooltip hidden
C24_TooltipMenuExclusive ==
  \A id \in DOMAIN nodeUi :
    ~ /\ tooltipVisible(nodeUi[id], Len(pd.nodes))
      /\ menuVisible(nodeUi[id]) \/ contextMenuVisible(nodeUi[id])

\* the menu footprint at `position` lies inside the window `viewport`
FootprintInside(position, viewport) ==
  /\ position.x >= 0
  /\ position.y >= 0
  /\ position.x + 200 <= viewport.x
  /\ position.y + 350 <= viewport.y

\* a menu that would cross the right or the bottom edge for the pointer at
\* `client` is at the window size minus the footprint minus 10
PulledIn(client, position, viewport) ==
  /\ client.x + 200 > viewport.x => position.x = viewport.x - 200 - 10
  /\ client.y + 350 > viewport.y => position.y = viewport.y - 350 - 10

\* the context-menu positions that are tracked, with the window each was
\* computed for, keep the footprint inside the windows of `sizes`, and the
\* position a right-click has just computed is pulled in
ContextMenuKeptInside(sizes) ==
  /\ \A id \in DOMAIN nodeUi :
       (nodeUi[id].showContextMenu /\ nodeUi[id].contextMenuViewport \in sizes)
         => FootprintInside(nodeUi[id].contextMenuPosition,
                            nodeUi[id].contextMenuViewport)
  /\ (last.op = "contextMenu" /\ pendingShow # <<>>) =>
       LET cb == pendingShow[Len(pendingShow)]
       IN  cb.viewport \in sizes =>
             /\ FootprintInside(cb.position, cb.viewport)
             /\ PulledIn(Point(last.pt[1], last.pt[2]), cb.position,
                         cb.viewport)

\* C25 as stated: for every right-click position and every window size the
\* tracked context-menu position keeps the 200 x 350 footprint inside the
\* window, and a menu that would cross the right or bottom edge is pulled in
\* to the window size minus the footprint minus the 10-pixel margin
C25_ContextMenuInsideViewport == ContextMenuKeptInside(WindowSizes)

\* C25, amended: the same for every window at least 220 wide and 370 high
\* (the footprint and the margin on both sides)
C25_ContextMenuInsideLargeViewport ==
  ContextMenuKeptInside({v \in WindowSizes : v.x >= 220 /\ v.y >= 370})

\* a right-click near the right and bottom edges of a 1024 x 768 window: the
\* context menu is shown at (814, 408)
C25_Witness ==
  /\ IdA \in DOMAIN nodeUi
  /\ nodeUi[IdA].showContextMenu
  /\ nodeUi[IdA].contextMenuViewport = Point(1024, 768)
  /\ nodeUi[IdA].contextMenuPosition = Point(814, 408)

----------------------------------------------------------------------------
\* Input documents

\* the document is absent, or its node list is absent or not a list
InvalidShape(d) == d.shape \in {"absent", "noNodes", "nodesNotArray"}

\* C26: while the input document is absent, or its node list is absent or not
\* a list, the graph is the empty graph: no node and no edge is rendered, no
\* layout has been computed, no position is kept and the render has not failed.
C26_InvalidDocumentIsEmptyGraph ==
  InvalidShape(data) =>
    /\ pd.nodes = <<>>
    /\ pd.edges = <<>>
    /\ renderedNodes(pd.nodes, nodePositions) = {}
    /\ validEdges(pd.edges, nodePositions) = <<>>
    /\ layoutApplied = "none"
    /\ nodePositions = <<>>
    /\ ~failed

\* a refresh replaced a document with nodes (the timer of an expansion made
\* on it is still pending) by one whose `nodes` is not a list
C26_Witness ==
  /\ last.op = "refresh"
  /\ data = DocNodesNotArray
  /\ expandingNode # NoNode
  /\ ~failed

\* C27: no input document, and in particular none with a valid node list and
\* no edge list, makes an operation fail: the render of the edges, select,
\* show dependencies, show dependents, go to parent and expand all complete.
C27_NoOperationFails == ~failed

----------------------------------------------------------------------------
\* The expanding flag

\* C28: every expansion sets the expanding flag to the id of its anchor, and
\* when the delayed callbacks are run the flag always returns to none.
C28_ExpandingFlagClears ==
  /\ [][\A i \in DOMAIN pd.nodes :
          ExpandNode(pd.nodes[i]) => expandingNode' = pd.nodes[i].id]_vars
  /\ (expandingNode # NoNode) ~> (expandingNode = NoNode)

\* the callback of an expansion of node a has run: no callback is pending,
\* a is still selected and the flag is none
C28_Witness ==
  /\ last.op = "expandTimeout"
  /\ selectedNode = IdA
  /\ timers = 0
  /\ expandingNode = NoNode

----------------------------------------------------------------------------
\* Edges and the nodes they join

\* C29: every rendered edge has both of its endpoints among the rendered
\* nodes, in every state reached by layout, node drag, expansion and data
\* refresh, also when the edge list names a target that is not in the node
\* list and the source of that edge is expanded.
C29_NoDanglingEdges ==
  \A e \in SeqToSet(validEdges(pd.edges, nodePositions)) :
    /\ e.source \in renderedIds(pd, nodePositions)
    /\ e.target \in renderedIds(pd, nodePositions)

----------------------------------------------------------------------------
\* The position map of the layout step

\* the map has one entry per node of the list, no two entries are equal and
\* none is the sentinel
OnePositionPerNode(nodes, pos) ==
  /\ DOMAIN pos = NodeIds(nodes)
  /\ Cardinality(DOMAIN pos) = Len(nodes)
  /\ \A a, b \in DOMAIN pos : a # b => pos[a] # pos[b]
  /\ \A a \in DOMAIN pos : pos[a] # Sentinel

----------------------------------------------------------------------------
\* Which operation changes which piece of state

\* the position map changes at the entry of `id` at most
OnlyEntryChanges(id) ==
  /\ DOMAIN nodePositions' \subseteq DOMAIN nodePositions \cup {id}
  /\ \A other \in DOMAIN nodePositions \ {id} :
       /\ other \in DOMAIN nodePositions'
       /\ nodePositions'[other] = nodePositions[other]

\* C31: wheel zoom, button zoom, pan and reset leave the position map, the
\* selection and the highlight set unchanged; select, show dependencies, show
\* dependents, edge click, background click and go to parent leave the
\* position map and the transform unchanged; a node drag changes only the
\* entry of the dragged node and leaves transform and highlight set unchanged.
C31_OperationsKeepToTheirState ==
  [][/\ (\/ last'.op \in {"wheel", "zoomIn", "zoomOut", "reset"}
         \/ /\ last'.op = "mouseMove"
            /\ isPanning
            /\ nodeDragging = NoNode)
          => UNCHANGED <<nodePositions, selectedNode, highlightedPath>>
     /\ last'.op \in {"select", "dependencies", "dependents", "edgeClick",
                      "backgroundClick", "goToParent"}
          => UNCHANGED <<nodePositions, transform>>
     /\ last'.op = "drag"
          => /\ OnlyEntryChanges(last'.a)
             /\ UNCHANGED <<transform, highlightedPath>>
     /\ (last'.op = "mouseMove" /\ last'.a[1] = "node")
          => /\ OnlyEntryChanges(nodeDragging)
             /\ UNCHANGED <<transform, highlightedPath>>]_vars

----------------------------------------------------------------------------
\* Panning and the other viewport operations

\* C32: a pointer-move of a pan session changes the translate by the pointer
\* displacement since the previous pointer position of the session and keeps
\* the scale, also when a wheel zoom, a button zoom, a focus or a reset
\* happened in the session since that position: what the operation did to the
\* translate is kept.
C32_PanKeepsInterveningOperation ==
  [][(/\ last'.op = "mouseMove"
      /\ last'.a[1] = "container"
      /\ isPanning
      /\ grab.down)
       => LET p == Point(last'.pt[1], last'.pt[2])
          IN  /\ transform'.x = RAdd(transform.x, RInt(p.x - grab.at.x))
              /\ transform'.y = RAdd(transform.y, RInt(p.y - grab.at.y))
              /\ transform'.scale = transform.scale]_vars

----------------------------------------------------------------------------
\* Selection and highlight set

SelectionHighlighted ==
  selectedNode # NoNode => selectedNode \in highlightedPath.nodes

\* C33 as stated: in every state reached by select, focus, show dependencies,
\* show dependents, edge click, go to parent, expansion, background click and
\* panel close, a selected node is a member of the highlight set's node ids
C33_SelectionInHighlight == SelectionHighlighted

\* C33, amended: right after a select, an expansion, or a go to parent that
\* selects the single parent, the selected node is a member of the highlight
\* set's node ids
C33_SelectionInHighlightAfterSelecting ==
  (\/ last.op \in {"select", "expand"}
   \/ /\ last.op = "goToParent"
      /\ goToParentSelection(last.a, pd, NoNode) # NoNode)
    => selectedNode # NoNode /\ SelectionHighlighted

\* go to parent on node b has selected a, the only parent of b
C33_Witness ==
  /\ last = Op("goToParent", IdB, NoNode)
  /\ selectedNode = IdA
  /\ highlightedPath.nodes = {IdA, IdB}

\* C34: the highlight set is closed under endpoints: every edge key s-t of its
\* edges has both s and t among its node ids, after select, show
\* dependencies, show dependents, edge click, go to parent, expansion,
\* background click and data refresh.
C34_HighlightClosedUnderEndpoints ==
  \A key \in highlightedPath.edges :
    \E s \in highlightedPath.nodes, t \in highlightedPath.nodes :
      key = EdgeKey(s, t)

\* show dependencies of node b on the pair document: the key a-b with a and b
\* highlighted
C34_Witness ==
  /\ last = Op("dependencies", IdB, NoNode)
  /\ highlightedPath = [nodes |-> {IdA, IdB}, edges |-> {EdgeKey(IdA, IdB)}]

----------------------------------------------------------------------------
\* Which positions count as placed

\* C35: an edge is left out of the rendered edges only when an endpoint is
\* missing or at the sentinel (0, 0): every edge of the list whose endpoints
\* both hold a position other than (0, 0), such as (0, 120), is rendered, as
\* the nodes at these positions are.
C35_EdgeExcludedOnlyAtSentinel ==
  \A i \in DOMAIN pd.edges :
    (/\ PlacedAt(nodePositions, pd.edges[i].source)
     /\ PlacedAt(nodePositions, pd.edges[i].target))
      => pd.edges[i] \in SeqToSet(validEdges(pd.edges, nodePositions))

----------------------------------------------------------------------------
\* Path highlighting of the edges

\* the edges, as ordered pairs, that the highlight operation `op` puts into
\* the highlight set
HighlightedPairs(op) ==
  LET E == SeqToSet(pd.edges)
  IN  IF op.op = "edgeClick" THEN {MkEdge(op.a, op.b)}
      ELSE IF op.op = "select"
        THEN {e \in E : e.source = op.a \/ e.target = op.a}
      ELSE IF op.op = "dependencies" THEN {e \in E : e.target = op.a}
      ELSE IF op.op = "dependents" THEN {e \in E : e.source = op.a}
      ELSE {}

\* C36: an edge (s, t) that is drawn is shown as path-highlighted only if the
\* last highlight operation put an edge with source s and target t into the
\* highlight set, also for ids that contain '-': the edges (a-b, c) and
\* (a, b-c) are not taken for one another.
C36_PathHighlightExactPerPair ==
  last.op \in {"select", "dependencies", "dependents", "edgeClick"} =>
    \A e \in SeqToSet(validEdges(pd.edges, nodePositions)) :
      isPathHighlighted(e, highlightedPath) => e \in HighlightedPairs(last)

----------------------------------------------------------------------------
\* The two menus of a node

\* C37: for every node, the dropdown menu and the context menu are never both
\* visible, in every interleaving of right-click, the deferred callback that
\* shows the context menu, menu-button click, menu close and document click.
C37_MenusExclusive ==
  \A id \in DOMAIN nodeUi :
    ~(menuVisible(nodeUi[id]) /\ contextMenuVisible(nodeUi[id]))

----------------------------------------------------------------------------
\* The expanding flag and the timers behind it

\* C38: the timer of an earlier expansion does not clear the expanding flag
\* of a later one: a callback that runs while the timer of a later expansion
\* is still pending (timers of one delay run in the order they were set)
\* leaves the flag as it is.
C38_EarlierTimerKeepsLaterFlag ==
  [][(last'.op = "expandTimeout" /\ timers > 1)
       => expandingNode' = expandingNode]_vars

----------------------------------------------------------------------------
\* Overlap

\* no two placed nodes share a position
NoOverlap(pos) ==
  \A a, b \in DOMAIN pos :
    (a # b /\ PlacedAt(pos, a) /\ PlacedAt(pos, b)) => pos[a] # pos[b]

\* C39: an expansion creates no overlap: if no two placed nodes share a
\* position before it, none do after it.
C39_ExpansionKeepsNodesApart ==
  [][(last'.op = "expand" /\ NoOverlap(nodePositions))
       => NoOverlap(nodePositions')]_vars

----------------------------------------------------------------------------
\* The details panel

\* C40: the details panel has no negative coordinate, for every node position
\* and every container size: its initial position, the position an automatic
\* placement gives it and the position a pointer-move of a panel drag gives
\* it have x >= 0 and y >= 0, and an automatic placement keeps x >= 20 and
\* y >= 20.
C40_PanelNeverNegative ==
  panelShown(selectedNode, nodePositions) =>
    /\ panelPosition.x >= 0
    /\ panelPosition.y >= 0
    /\ initialPanelPosition(nodePositions[selectedNode]).x >= 0
    /\ initialPanelPosition(nodePositions[selectedNode]).y >= 0
    /\ last.op = "select" => panelPosition.x >= 20 /\ panelPosition.y >= 20

============================================================================
